---------------------------- MODULE Spec2Model ----------------------------
(***************************************************************************)
(* A model of the single-file HAR analyzer of Danu28/har-analyzer:         *)
(*   scripts/break_har_for_single_analysis.py   (the chunker)              *)
(*   scripts/analyze_single_har_performance.py  (the analyzer)             *)
(*   scripts/break_har.py                       (the resource classifier)  *)
(*                                                                         *)
(* Text (URLs, attribute values, document bodies) is a sequence of tokens. *)
(* A token stands for a run of characters that no other token overlaps, so *)
(* that suffix and substring tests on token sequences agree with the same  *)
(* tests on the characters.  An optional value (a Python None, a missing   *)
(* JSON key) is the empty tuple; a present value v is <<v>>.               *)
(***************************************************************************)
EXTENDS Integers, Sequences, FiniteSets, TLC

VARIABLES
    reqs,           \* summary["requests"]: the request records under analysis
    header,         \* the object of 01_header_and_metadata.json
    done,           \* the analysis steps that have run
    timing,         \* main's latency buckets (fast, medium, slow, very_slow)
    agent_summary,  \* the value generate_agent_summary returned
    html_content,   \* the document handed to parse_critical_resources
    has_bs,         \* HAS_BEAUTIFULSOUP: whether the bs4 import succeeded
    resource_url,   \* the URL handed to correlate_with_request
    blocking_resources, \* the list parse_critical_resources returned
    resource,       \* the item correlate_with_request returned
    dns_analysis,   \* the value analyze_dns_connection_timing returned
    enhanced_tp_analysis, \* the value analyze_enhanced_third_party returned
    breakdown_stats,    \* main's per-resource-type statistics (stats)
    har,            \* the HAR document (json_data / har_data)
    structured_data,    \* the value break_har.extract_har_data returned
    classified,     \* an input of _determine_resource_type and its result
    output_dir,     \* the chunk directory: whether it exists, and its files
    chunker_pc,     \* the position of the chunker's main
    run,            \* the number of the chunker run (1 or 2)
    json_data,      \* the HAR the chunker loaded
    chunk_number,   \* the chunker's chunk counter
    first_run_files,    \* the files of output_dir when the first run ended
    analyzer_pc,    \* the position of the analyzer's main
    exit_code,      \* the exit status of the analyzer, None while it runs
    compression_analysis,   \* the value analyze_compression returned
    cache_analysis, \* the value analyze_caching returned
    full_har_data,  \* the HAR the analyzer rebuilt from the chunk files
    critical_path_analysis, \* the value analyze_critical_path returned
    cp_raised,      \* whether analyze_critical_path raised to its caller
    call,           \* a function under check: its arguments and its result
    pipelines,      \* the chunk-then-analyze runs in progress, by run
    har_chunks      \* the directories under har_chunks/, by name

summaryVars == <<timing, agent_summary>>
criticalVars == <<html_content, has_bs, resource_url, blocking_resources, resource>>
auditVars == <<dns_analysis, enhanced_tp_analysis, breakdown_stats>>
breakVars == <<har, structured_data, classified>>
chunkerVars == <<output_dir, chunker_pc, run, json_data, chunk_number, first_run_files>>
analyzerVars == <<analyzer_pc, exit_code, compression_analysis, cache_analysis,
                  full_har_data, critical_path_analysis, cp_raised>>
sharedVars == <<call, pipelines, har_chunks>>
pipeVars == <<chunkerVars, analyzerVars, sharedVars>>
vars == <<reqs, header, done, summaryVars, criticalVars, auditVars, breakVars,
          pipeVars>>

---------------------------------------------------------------------------
(* Bounds of the model.                                                    *)

MaxReqs == 2
MaxTags == 2
MaxUrlLen == 2

---------------------------------------------------------------------------
(* Python values.                                                          *)

None == <<>>
Some(v) == <<v>>
IsNone(o) == o = <<>>
Get(o) == o[1]

Min(a, b) == IF a < b THEN a ELSE b
Max(a, b) == IF a > b THEN a ELSE b

Range(s) == {s[i] : i \in 1..Len(s)}

\* s[:n]
Take(s, n) == SubSeq(s, 1, Min(n, Len(s)))

\* s.endswith(t)
EndsWith(s, t) ==
    /\ Len(t) <= Len(s)
    /\ SubSeq(s, Len(s) - Len(t) + 1, Len(s)) = t

\* t in s, for strings
Contains(s, t) ==
    \E i \in 1..(Len(s) - Len(t) + 1) : SubSeq(s, i, i + Len(t) - 1) = t

\* sum(f[i] for i in 1..Len(f))
RECURSIVE SumSeq(_)
SumSeq(s) == IF s = <<>> THEN 0 ELSE s[1] + SumSeq(Tail(s))

\* max(s) of a non-empty list
MaxSeq(s) == CHOOSE m \in Range(s) : \A x \in Range(s) : x <= m

\* round(num / den, 0..2 decimals) scaled to an integer: round(num*scale/den),
\* ties to even, as Python rounds a value its float holds exactly.
RoundHalfEven(num, den) ==
    LET q == num \div den
        r == num % den
    IN  IF 2 * r < den THEN q
        ELSE IF 2 * r > den THEN q + 1
        ELSE IF q % 2 = 0 THEN q ELSE q + 1

\* sorted(s, key=lambda x: -keys[x]): the positions of s in descending order of
\* key, equal keys in their original order (Python's sort is stable).
SortDescBy(keys) ==
    LET n == Len(keys)
        Before(i, j) == keys[i] > keys[j] \/ (keys[i] = keys[j] /\ i < j)
        Rank(i) == 1 + Cardinality({j \in 1..n : Before(j, i)})
    IN  [k \in 1..n |-> CHOOSE i \in 1..n : Rank(i) = k]

---------------------------------------------------------------------------
(* Request records, as break_har_for_single_analysis.main writes them to   *)
(* 02_requests_summary.json (statusText and startedDateTime are carried    *)
(* through and read by no analysis; they are left out).                    *)

Request(n, method, url, status, mime, size, time, rtype, timings) ==
    [entryNumber |-> n, method |-> method, url |-> url, status |-> status,
     mimeType |-> mime, size |-> size, time |-> time, resourceType |-> rtype,
     timings |-> timings]

\* an entry's timings object with no dns, ssl or connect key
NoTimings == [dns |-> None, ssl |-> None, connect |-> None]

\* urlparse(url).netloc, for the URLs of the model: a URL is absolute when it
\* starts with the scheme token, and its next token is then the authority
netloc(url) ==
    IF Len(url) >= 2 /\ url[1] = "https://" THEN url[2] ELSE ""

---------------------------------------------------------------------------
(* analyze_single_har_performance.main, REQUEST TIMING ANALYSIS.           *)

main_timing(rs) ==
    LET IsFast(r) == r.time < 200
        IsMedium(r) == 200 <= r.time /\ r.time < 500
        IsSlow(r) == r.time >= 500
        IsVerySlow(r) == r.time >= 1000
    IN  [fast |-> SelectSeq(rs, IsFast),
         medium |-> SelectSeq(rs, IsMedium),
         slow |-> SelectSeq(rs, IsSlow),
         very_slow |-> SelectSeq(rs, IsVerySlow)]

---------------------------------------------------------------------------
(* generate_agent_summary.                                                 *)

\* round(on_load / 1000, 2), in hundredths of a second.  The inputs of the
\* model are whole multiples of 10 ms, for which no tie arises.
seconds_2dp(ms) == RoundHalfEven(ms, 10)

performance_grade(page_load) ==
    IF ~IsNone(page_load) /\ Get(page_load) > 1000 THEN "CRITICAL"
    ELSE IF ~IsNone(page_load) /\ Get(page_load) > 500 THEN "POOR"
    ELSE IF ~IsNone(page_load) /\ Get(page_load) > 300 THEN "FAIR"
    ELSE IF ~IsNone(page_load) THEN "GOOD"
    ELSE "UNKNOWN"

\* f"{x}s" if x is not None else "Not available"
time_text(x) == IF IsNone(x) THEN <<"Not available">> ELSE <<Get(x), "s">>

\* page_timings.get(key): None when pageTimings or the key is missing
page_timing(page, key) ==
    IF IsNone(page.pageTimings) THEN None ELSE Get(page.pageTimings)[key]

generate_agent_summary(summary, hdr, enhanced_analysis) ==
    IF hdr.log.pages = <<>>
    THEN \* header["log"]["pages"][0] raises IndexError, caught at line 925
         [error |-> "Failed to generate summary"]
    ELSE
    LET rs == summary.requests
        total_entries == summary.totalEntries
        page == hdr.log.pages[1]
        on_content_load == page_timing(page, "onContentLoad")
        on_load == page_timing(page, "onLoad")
        dom_ready == IF IsNone(on_content_load) THEN None
                     ELSE Some(seconds_2dp(Get(on_content_load)))
        page_load == IF IsNone(on_load) THEN None
                     ELSE Some(seconds_2dp(Get(on_load)))
        IsVerySlow(r) == r.time >= 1000
        IsSlow(r) == 500 <= r.time /\ r.time < 1000
        IsFailed(r) == r.status >= 400
        HasSize(r) == r.size > 0
        very_slow == SelectSeq(rs, IsVerySlow)
        slow == SelectSeq(rs, IsSlow)
        failed == SelectSeq(rs, IsFailed)
        types == {r.resourceType : r \in Range(rs)}
        sized == SelectSeq(rs, HasSize)
        bySize == SortDescBy([i \in 1..Len(sized) |-> sized[i].size])
        largest == Take([k \in 1..Len(sized) |-> sized[bySize[k]]], 5)
        byTime == SortDescBy([i \in 1..Len(rs) |-> rs[i].time])
        slowest == Take([k \in 1..Len(rs) |-> rs[byTime[k]]], 5)
        base_summary ==
            [performance_summary |->
                [total_requests |-> total_entries,
                 dom_ready_time |-> time_text(dom_ready),
                 page_load_time |-> time_text(page_load),
                 performance_grade |-> performance_grade(page_load)],
             critical_issues |->
                [very_slow_requests |-> Len(very_slow),
                 slow_requests |-> Len(slow),
                 failed_requests |-> Len(failed),
                 excessive_requests |-> total_entries > 100],
             resource_breakdown |->
                [t \in types |->
                    Cardinality({i \in 1..Len(rs) : rs[i].resourceType = t})],
             largest_assets |->
                [k \in 1..Len(largest) |->
                    [url |-> Take(largest[k].url, 80),
                     size_kb |-> RoundHalfEven(largest[k].size * 10, 1024)]],
             slowest_requests |->
                [k \in 1..Len(slowest) |->
                    [url |-> Take(slowest[k].url, 80),
                     time_ms |-> slowest[k].time]],
             failed_requests |->
                [k \in 1..Len(failed) |->
                    [url |-> failed[k].url, status |-> failed[k].status]]]
    IN  IF IsNone(enhanced_analysis) THEN base_summary
        ELSE [k \in (DOMAIN base_summary) \cup
                    {"compression_analysis", "caching_analysis",
                     "dns_connection_analysis", "enhanced_third_party_analysis",
                     "critical_path_analysis"} |->
                IF k \in DOMAIN base_summary THEN base_summary[k]
                ELSE IF k = "compression_analysis"
                     THEN Get(enhanced_analysis).compression
                ELSE IF k = "caching_analysis"
                     THEN Get(enhanced_analysis).caching
                ELSE IF k = "dns_connection_analysis"
                     THEN Get(enhanced_analysis).dns_connection
                ELSE IF k = "enhanced_third_party_analysis"
                     THEN Get(enhanced_analysis).enhanced_third_party
                ELSE Get(enhanced_analysis).critical_path]

---------------------------------------------------------------------------
(* HTML.  A document is a sequence of parts, a part being a head element   *)
(* with its tags or other content; a tag has a name and its attributes in  *)
(* written order, an attribute a name and a value: None when the attribute *)
(* is written bare (<script async>), the quoted text otherwise.  No tag of *)
(* the model repeats an attribute.                                         *)

Attr(name, value) == [name |-> name, value |-> value]
Tag(name, attrs) == [name |-> name, attrs |-> attrs]
HeadPart(tags) == [kind |-> "head", tags |-> tags]
TextPart(kind) == [kind |-> kind, tags |-> <<>>]

HasAttr(tag, name) == \E i \in 1..Len(tag.attrs) : tag.attrs[i].name = name
AttrOf(tag, name) ==
    tag.attrs[CHOOSE i \in 1..Len(tag.attrs) : tag.attrs[i].name = name]

\* the tokens that separate words (every other token is a run of \w characters)
Separators == {"/", ".", "-", " ", ":", "?"}

\* re.search(r'\bw\b', text): w as a whole word of text
ContainsWord(text, w) ==
    \E i \in 1..Len(text) :
        /\ text[i] = w
        /\ i = 1 \/ text[i - 1] \in Separators
        /\ i = Len(text) \/ text[i + 1] \in Separators

\* soup.find('head') / re.search(r'<head[^>]*>(.*?)</head>'): the first head
find_head(html) ==
    IF \E i \in 1..Len(html) : html[i].kind = "head"
    THEN Some(html[CHOOSE i \in 1..Len(html) :
                    /\ html[i].kind = "head"
                    /\ \A j \in 1..(i - 1) : html[j].kind # "head"].tags)
    ELSE None

---------------------------------------------------------------------------
(* Correlation of a parsed URL with the request records.                   *)

\* {req['url']: req for req in reqs}: the distinct URLs in the order of their
\* first occurrence, each with the last request that has it.
url_to_request(rs) ==
    LET IsFirst(i) == \A j \in 1..(i - 1) : rs[j].url # rs[i].url
        firsts == SelectSeq([i \in 1..Len(rs) |-> i], IsFirst)
        LastWith(u) == CHOOSE i \in 1..Len(rs) :
                          /\ rs[i].url = u
                          /\ \A j \in (i + 1)..Len(rs) : rs[j].url # u
    IN  [k \in 1..Len(firsts) |->
            [url |-> rs[firsts[k]].url, req |-> rs[LastWith(rs[firsts[k]].url)]]]

create_resource_object(req, resource_type) ==
    [url |-> req.url, type |-> resource_type, size |-> req.size,
     time |-> req.time, status |-> req.status, found_in_har |-> TRUE]

\* correlate_with_request without the substring test of line 765
correlate_suffix_only(url, map, resource_type) ==
    IF \E k \in 1..Len(map) : map[k].url = url
    THEN create_resource_object(
            map[CHOOSE k \in 1..Len(map) : map[k].url = url].req, resource_type)
    ELSE
    LET Partial(k) == EndsWith(map[k].url, url)
    IN  IF \E k \in 1..Len(map) : Partial(k)
        THEN create_resource_object(
                map[CHOOSE k \in 1..Len(map) :
                        Partial(k) /\ \A j \in 1..(k - 1) : ~Partial(j)].req,
                resource_type)
        ELSE [url |-> url, type |-> resource_type, size |-> 0, time |-> 0,
              found_in_har |-> FALSE]

correlate_with_request(url, map, resource_type) ==
    IF \E k \in 1..Len(map) : map[k].url = url
    THEN create_resource_object(
            map[CHOOSE k \in 1..Len(map) : map[k].url = url].req, resource_type)
    ELSE
    LET Partial(k) == EndsWith(map[k].url, url) \/ Contains(map[k].url, url)
    IN  IF \E k \in 1..Len(map) : Partial(k)
        THEN create_resource_object(
                map[CHOOSE k \in 1..Len(map) :
                        Partial(k) /\ \A j \in 1..(k - 1) : ~Partial(j)].req,
                resource_type)
        ELSE [url |-> url, type |-> resource_type, size |-> 0, time |-> 0,
              found_in_har |-> FALSE]

---------------------------------------------------------------------------
(* The two parsers of the head.  Documents of the model are shorter than   *)
(* the 1 MB both parsers cut the content to.                               *)

\* tag.get(name) under BeautifulSoup's html.parser: None for a missing
\* attribute, the empty string for a bare one, the value otherwise.
bs_get(tag, name) ==
    IF ~HasAttr(tag, name) THEN None
    ELSE IF IsNone(AttrOf(tag, name).value) THEN Some(<<>>)
    ELSE AttrOf(tag, name).value

\* Python's truth value of an optional string
Truthy(o) == ~IsNone(o) /\ Get(o) # <<>>

\* find_all('link', rel='stylesheet'): rel is multi-valued, split at blanks
bs_rel_is(tag, word) ==
    /\ HasAttr(tag, "rel")
    /\ LET v == Get(bs_get(tag, "rel"))
       IN  \E i \in 1..Len(v) :
              /\ v[i] = word
              /\ i = 1 \/ v[i - 1] = " "
              /\ i = Len(v) \/ v[i + 1] = " "

parse_with_beautifulsoup(html, map) ==
    LET head == find_head(html)
    IN  IF IsNone(head) THEN <<>>
        ELSE
        LET IsSheet(t) ==
                /\ t.name = "link"
                /\ bs_rel_is(t, "stylesheet")
                /\ Truthy(bs_get(t, "href"))
            IsBlockingScript(t) ==
                /\ t.name = "script"
                /\ Truthy(bs_get(t, "src"))
                /\ ~Truthy(bs_get(t, "async"))
                /\ ~Truthy(bs_get(t, "defer"))
            links == SelectSeq(Get(head), IsSheet)
            scripts == SelectSeq(Get(head), IsBlockingScript)
        IN  [i \in 1..Len(links) |->
                correlate_with_request(Get(bs_get(links[i], "href")), map,
                                       "stylesheet")]
            \o [i \in 1..Len(scripts) |->
                correlate_with_request(Get(bs_get(scripts[i], "src")), map,
                                       "script")]

\* css_pattern on one tag: rel="stylesheet" written before a non-empty href
css_pattern(t) ==
    /\ t.name = "link"
    /\ \E i, j \in 1..Len(t.attrs) :
          /\ i < j
          /\ t.attrs[i].name = "rel"
          /\ t.attrs[i].value = Some(<<"stylesheet">>)
          /\ t.attrs[j].name = "href"
          /\ Truthy(t.attrs[j].value)

\* script_pattern on one tag: a non-empty quoted src
script_pattern(t) ==
    /\ t.name = "script"
    /\ HasAttr(t, "src")
    /\ Truthy(AttrOf(t, "src").value)

\* re.search(r'\bw\b', script_tag): w is an attribute's name, or a whole
\* word of an attribute's value
tag_has_word(t, w) ==
    \E i \in 1..Len(t.attrs) :
        \/ t.attrs[i].name = w
        \/ /\ ~IsNone(t.attrs[i].value)
           /\ ContainsWord(Get(t.attrs[i].value), w)

parse_with_regex(html, map) ==
    LET head == find_head(html)
    IN  IF IsNone(head) THEN <<>>
        ELSE
        LET IsBlockingScript(t) ==
                /\ script_pattern(t)
                /\ ~tag_has_word(t, "async")
                /\ ~tag_has_word(t, "defer")
            links == SelectSeq(Get(head), css_pattern)
            scripts == SelectSeq(Get(head), IsBlockingScript)
        IN  [i \in 1..Len(links) |->
                correlate_with_request(Get(AttrOf(links[i], "href").value), map,
                                       "stylesheet")]
            \o [i \in 1..Len(scripts) |->
                correlate_with_request(Get(AttrOf(scripts[i], "src").value), map,
                                       "script")]

parse_critical_resources(html, rs, bs) ==
    IF bs THEN parse_with_beautifulsoup(html, url_to_request(rs))
    ELSE parse_with_regex(html, url_to_request(rs))

---------------------------------------------------------------------------
(* SpecSummary: the timing analysis of main and generate_agent_summary     *)
(* over bounded request lists and headers.                                 *)

\* request durations on both sides of each threshold (200, 500, 1000 ms)
TimeValues == {0, 199, 200, 499, 500, 999, 1000, 1500}

\* onLoad values (ms) on both sides of each grade threshold (3, 5, 10 s)
OnLoadValues == {0, 3000, 3010, 5000, 5010, 10000, 10010, 60000}

TimedRequest(n, t) ==
    Request(n, "GET", <<"u">>, 200, "text/plain", 10, t, "other", NoTimings)

TimedRequestLists ==
    UNION {[1..n -> TimeValues] : n \in 0..MaxReqs}

Pages ==
    {[pageTimings |-> None]}
    \cup {[pageTimings |-> Some([onContentLoad |-> None, onLoad |-> ol])] :
            ol \in {None} \cup {Some(v) : v \in OnLoadValues}}

Headers ==
    {[log |-> [pages |-> <<>>]]} \cup {[log |-> [pages |-> <<p>>]] : p \in Pages}

Unset == <<>>

IdleCritical ==
    /\ html_content = Unset
    /\ has_bs = FALSE
    /\ resource_url = Unset
    /\ blocking_resources = Unset
    /\ resource = Unset

IdleAudit ==
    /\ dns_analysis = Unset
    /\ enhanced_tp_analysis = Unset
    /\ breakdown_stats = Unset

IdleBreak ==
    /\ har = Unset
    /\ structured_data = Unset
    /\ classified = Unset

IdlePipe ==
    /\ output_dir = Unset
    /\ chunker_pc = Unset
    /\ run = 0
    /\ json_data = Unset
    /\ chunk_number = 0
    /\ first_run_files = Unset
    /\ analyzer_pc = Unset
    /\ exit_code = None
    /\ compression_analysis = Unset
    /\ cache_analysis = Unset
    /\ full_har_data = Unset
    /\ critical_path_analysis = Unset
    /\ cp_raised = FALSE
    /\ call = Unset
    /\ pipelines = Unset
    /\ har_chunks = Unset

IdleSummary ==
    /\ header = [log |-> [pages |-> <<>>]]
    /\ timing = Unset
    /\ agent_summary = Unset

InitSummary ==
    /\ IdlePipe
    /\ \E ts \in TimedRequestLists :
          reqs = [i \in 1..Len(ts) |-> TimedRequest(i, ts[i])]
    /\ header \in Headers
    /\ done = {}
    /\ timing = Unset
    /\ agent_summary = Unset
    /\ IdleCritical
    /\ IdleAudit
    /\ IdleBreak

MainTiming ==
    /\ "main_timing" \notin done
    /\ timing' = main_timing(reqs)
    /\ done' = done \cup {"main_timing"}
    /\ UNCHANGED <<reqs, header, agent_summary, criticalVars, auditVars, breakVars,
                   pipeVars>>

GenerateAgentSummary ==
    /\ "generate_agent_summary" \notin done
    /\ agent_summary' =
          generate_agent_summary(
              [totalEntries |-> Len(reqs), requests |-> reqs], header, None)
    /\ done' = done \cup {"generate_agent_summary"}
    /\ UNCHANGED <<reqs, header, timing, criticalVars, auditVars, breakVars,
                   pipeVars>>

NextSummary == MainTiming \/ GenerateAgentSummary

SpecSummary == InitSummary /\ [][NextSummary]_vars

---------------------------------------------------------------------------
(* Claims settled under SpecSummary.                                       *)

BucketNames == {"fast", "medium", "slow", "very_slow"}

\* C1: once main has computed its latency buckets, every request is in
\* exactly one of fast, medium, slow and very_slow, and the four bucket
\* sizes sum to the number of requests.
C1_BucketPartition ==
    "main_timing" \in done =>
        /\ \A i \in 1..Len(reqs) :
              Cardinality({b \in BucketNames : reqs[i] \in Range(timing[b])}) = 1
        /\ Len(timing.fast) + Len(timing.medium) + Len(timing.slow)
              + Len(timing.very_slow) = Len(reqs)

\* The load time a header carries, in ms: absent when the page record, its
\* pageTimings or its onLoad is absent.
HeaderOnLoad(hdr) ==
    IF hdr.log.pages = <<>> THEN None
    ELSE IF IsNone(hdr.log.pages[1].pageTimings) THEN None
    ELSE Get(hdr.log.pages[1].pageTimings).onLoad

ExpectedGrade(on_load) ==
    IF IsNone(on_load) THEN "UNKNOWN"
    ELSE IF Get(on_load) > 10000 THEN "CRITICAL"
    ELSE IF Get(on_load) > 5000 THEN "POOR"
    ELSE IF Get(on_load) > 3000 THEN "FAIR"
    ELSE "GOOD"

\* C4: for every header, generate_agent_summary returns a summary whose
\* performance_summary.performance_grade is the grade of the header's load
\* time, UNKNOWN exactly when the load time is absent.
C4_GradeFunction ==
    "generate_agent_summary" \in done =>
        /\ "performance_summary" \in DOMAIN agent_summary
        /\ agent_summary.performance_summary.performance_grade
              = ExpectedGrade(HeaderOnLoad(header))

---------------------------------------------------------------------------
(* SpecParse: parse_critical_resources over bounded heads, under either    *)
(* value of HAS_BEAUTIFULSOUP.                                             *)

AppUrl == <<"app">>
AsyncWordUrl == <<"async", "-", "app">>

LinkTags ==
    {Tag("link", <<Attr("rel", Some(<<"stylesheet">>)), Attr("href", Some(AppUrl))>>),
     Tag("link", <<Attr("href", Some(AppUrl)), Attr("rel", Some(<<"stylesheet">>))>>),
     Tag("link", <<Attr("rel", Some(<<"icon">>)), Attr("href", Some(AppUrl))>>),
     Tag("link", <<Attr("rel", Some(<<"stylesheet">>))>>)}

\* how a script tag may state async or defer: not at all, bare, or with a value
ScriptFlags ==
    {<<>>,
     <<Attr("async", None)>>, <<Attr("async", Some(<<"async">>))>>,
     <<Attr("defer", None)>>, <<Attr("defer", Some(<<"defer">>))>>}

ScriptTags ==
    {Tag("script", f) : f \in ScriptFlags}
    \cup {Tag("script", <<Attr("src", Some(u))>> \o f) :
            u \in {AppUrl, AsyncWordUrl}, f \in ScriptFlags}

ParseTags == LinkTags \cup ScriptTags

SheetTag == Tag("link", <<Attr("rel", Some(<<"stylesheet">>)), Attr("href", Some(AppUrl))>>)
PlainScriptTag == Tag("script", <<Attr("src", Some(AppUrl))>>)

\* 2 stylesheets, 1 deferred script and 1 non-deferred script
ScenarioHeads ==
    {<<SheetTag, SheetTag, Tag("script", <<Attr("src", Some(AppUrl))>> \o f),
       PlainScriptTag>> :
        f \in {<<Attr("defer", None)>>, <<Attr("defer", Some(<<"defer">>))>>}}

Heads == UNION {[1..n -> ParseTags] : n \in 0..MaxTags} \cup ScenarioHeads

Documents == {<<HeadPart(h)>> : h \in Heads} \cup {<<TextPart("text")>>}

FoundRequest ==
    Request(1, "GET", <<"h", "/", "app">>, 200, "text/css", 2048, 300,
            "stylesheet", NoTimings)

InitParse ==
    /\ IdlePipe
    /\ html_content \in Documents
    /\ has_bs \in BOOLEAN
    /\ reqs \in {<<>>, <<FoundRequest>>}
    /\ done = {}
    /\ resource_url = Unset
    /\ blocking_resources = Unset
    /\ resource = Unset
    /\ IdleSummary
    /\ IdleAudit
    /\ IdleBreak

ParseCriticalResources ==
    /\ "parse_critical_resources" \notin done
    /\ blocking_resources' = parse_critical_resources(html_content, reqs, has_bs)
    /\ done' = done \cup {"parse_critical_resources"}
    /\ UNCHANGED <<reqs, header, summaryVars, html_content, has_bs,
                   resource_url, resource, auditVars, breakVars,
                   pipeVars>>

NextParse == ParseCriticalResources

SpecParse == InitParse /\ [][NextParse]_vars

\* the tags of the document's head (none when it has no head)
HeadTags(html) == IF IsNone(find_head(html)) THEN <<>> ELSE Get(find_head(html))

IsStylesheetLink(t) ==
    /\ t.name = "link"
    /\ HasAttr(t, "rel") /\ AttrOf(t, "rel").value = Some(<<"stylesheet">>)
    /\ HasAttr(t, "href") /\ Truthy(AttrOf(t, "href").value)

IsSyncScript(t) ==
    /\ t.name = "script"
    /\ HasAttr(t, "src") /\ Truthy(AttrOf(t, "src").value)
    /\ ~HasAttr(t, "async")
    /\ ~HasAttr(t, "defer")

\* C2: the blocking list holds one stylesheet item per <link rel=stylesheet
\* href> of the head and one script item per <script src> that carries
\* neither async nor defer, and nothing else, whichever parser is active.
C2_BlockingExtraction ==
    "parse_critical_resources" \in done =>
        LET IsCss(r) == r.type = "stylesheet"
            IsJs(r) == r.type = "script"
            tags == HeadTags(html_content)
        IN  /\ Len(SelectSeq(blocking_resources, IsCss))
                  = Len(SelectSeq(tags, IsStylesheetLink))
            /\ Len(SelectSeq(blocking_resources, IsJs))
                  = Len(SelectSeq(tags, IsSyncScript))
            /\ Len(blocking_resources)
                  = Len(SelectSeq(tags, IsStylesheetLink))
                    + Len(SelectSeq(tags, IsSyncScript))

---------------------------------------------------------------------------
(* SpecCorrelate: correlate_with_request over bounded URLs and requests.   *)

UrlTokens == {"a", "/"}

Urls == UNION {[1..n -> UrlTokens] : n \in 1..MaxUrlLen}

UrlRequest(n, u) ==
    Request(n, "GET", u, 200, "text/css", 2048, 300, "stylesheet", NoTimings)

UrlRequestLists == UNION {[1..n -> Urls] : n \in 0..MaxReqs}

InitCorrelate ==
    /\ IdlePipe
    /\ resource_url \in Urls
    /\ \E us \in UrlRequestLists :
          reqs = [i \in 1..Len(us) |-> UrlRequest(i, us[i])]
    /\ done = {}
    /\ html_content = Unset
    /\ has_bs = FALSE
    /\ blocking_resources = Unset
    /\ resource = Unset
    /\ IdleSummary
    /\ IdleAudit
    /\ IdleBreak

CorrelateWithRequest ==
    /\ "correlate_with_request" \notin done
    /\ \E t \in {"stylesheet", "script"} :
          resource' = correlate_with_request(resource_url, url_to_request(reqs), t)
    /\ done' = done \cup {"correlate_with_request"}
    /\ UNCHANGED <<reqs, header, summaryVars, html_content, has_bs,
                   resource_url, blocking_resources, auditVars, breakVars,
                   pipeVars>>

NextCorrelate == CorrelateWithRequest

SpecCorrelate == InitCorrelate /\ [][NextCorrelate]_vars

---------------------------------------------------------------------------
(* analyze_dns_connection_timing.  Times are whole milliseconds; a rounded *)
(* value round(x, 1) is held in tenths.                                    *)

\* timings.get(key, -1)
timing_get(timings, key) ==
    IF IsNone(timings[key]) THEN -1 ELSE Get(timings[key])

\* the test that admits a timing as a sample (lines 1113, 1119, 1125, 1131)
valid_timing_or_sentinel(t) == t >= -1
valid_timing(t) == t >= 0

\* a number, or the marker "N/A"
Number(tenths) == [tenths |-> tenths]
NotAvailable == [text |-> "N/A"]

\* round(sum(xs) / len(xs), 1) of a non-empty list
average_1dp(xs) == RoundHalfEven(SumSeq(xs) * 10, Len(xs))

analyze_dns_connection_timing(rs) ==
    LET n == Len(rs)
        idx == [i \in 1..n |-> i]
        dns(i) == timing_get(rs[i].timings, "dns")
        ssl(i) == timing_get(rs[i].timings, "ssl")
        connect(i) == timing_get(rs[i].timings, "connect")
        domain(i) == netloc(rs[i].url)
        HasDns(i) == valid_timing(dns(i))
        HasSsl(i) == valid_timing(ssl(i))
        HasConnect(i) == valid_timing(connect(i))
        dnsIdx == SelectSeq(idx, HasDns)
        sslIdx == SelectSeq(idx, HasSsl)
        dns_times == [k \in 1..Len(dnsIdx) |->
                        [url |-> rs[dnsIdx[k]].url, dns_time |-> dns(dnsIdx[k]),
                         domain |-> domain(dnsIdx[k])]]
        ssl_times == [k \in 1..Len(sslIdx) |->
                        [url |-> rs[sslIdx[k]].url, ssl_time |-> ssl(sslIdx[k]),
                         domain |-> domain(sslIdx[k])]]
        reused_connections ==
            Cardinality({i \in 1..n : HasConnect(i) /\ connect(i) < 10})
        new_connections ==
            Cardinality({i \in 1..n : HasConnect(i) /\ ~(connect(i) < 10)})
        total_connection_data == reused_connections + new_connections
        connection_reuse_percentage ==
            IF total_connection_data > 0
            THEN RoundHalfEven(reused_connections * 1000, total_connection_data)
            ELSE 0
        \* the keys of domains, in insertion order
        IsFirst(i) == \A j \in 1..(i - 1) : domain(j) # domain(i)
        firsts == SelectSeq(idx, IsFirst)
        DomainStat(d) ==
            LET InD(i) == domain(i) = d
                mine == SelectSeq(idx, InD)
                DHasDns(i) == InD(i) /\ HasDns(i)
                DHasSsl(i) == InD(i) /\ HasSsl(i)
                DHasConnect(i) == InD(i) /\ HasConnect(i)
                d_dns == SelectSeq(idx, DHasDns)
                d_ssl == SelectSeq(idx, DHasSsl)
                d_connect == SelectSeq(idx, DHasConnect)
            IN  [domain |-> d,
                 requests |-> Len(mine),
                 avg_dns_ms |->
                    IF d_dns # <<>>
                    THEN average_1dp([k \in 1..Len(d_dns) |-> dns(d_dns[k])])
                    ELSE 0,
                 avg_ssl_ms |->
                    IF d_ssl # <<>>
                    THEN average_1dp([k \in 1..Len(d_ssl) |-> ssl(d_ssl[k])])
                    ELSE 0,
                 avg_connect_ms |->
                    IF d_connect # <<>>
                    THEN average_1dp([k \in 1..Len(d_connect) |-> connect(d_connect[k])])
                    ELSE 0,
                 total_time_ms |->
                    10 * SumSeq([k \in 1..Len(mine) |-> rs[mine[k]].time])]
        unsorted == [k \in 1..Len(firsts) |-> DomainStat(domain(firsts[k]))]
        byTotal == SortDescBy([k \in 1..Len(unsorted) |-> unsorted[k].total_time_ms])
        domain_stats == [k \in 1..Len(unsorted) |-> unsorted[byTotal[k]]]
        IsSlowDns(x) == x.dns_time > 100
        IsSlowSsl(x) == x.ssl_time > 500
        slow_dns == SelectSeq(dns_times, IsSlowDns)
        slow_ssl == SelectSeq(ssl_times, IsSlowSsl)
        byDns == SortDescBy([k \in 1..Len(slow_dns) |-> slow_dns[k].dns_time])
        bySsl == SortDescBy([k \in 1..Len(slow_ssl) |-> slow_ssl[k].ssl_time])
    IN  [domain_performance |-> Take(domain_stats, 10),
         slow_dns_resolutions |->
            Take([k \in 1..Len(slow_dns) |-> slow_dns[byDns[k]]], 5),
         slow_ssl_handshakes |->
            Take([k \in 1..Len(slow_ssl) |-> slow_ssl[bySsl[k]]], 5),
         avg_dns_time |->
            IF dns_times # <<>>
            THEN Number(average_1dp([k \in 1..Len(dns_times) |-> dns_times[k].dns_time]))
            ELSE NotAvailable,
         avg_ssl_time |->
            IF ssl_times # <<>>
            THEN Number(average_1dp([k \in 1..Len(ssl_times) |-> ssl_times[k].ssl_time]))
            ELSE NotAvailable,
         connection_reuse_percentage |-> connection_reuse_percentage,
         reused_connections |-> reused_connections,
         new_connections |-> new_connections,
         total_connection_requests |-> total_connection_data]

---------------------------------------------------------------------------
(* SpecDns: analyze_dns_connection_timing over bounded request lists.      *)

\* a dns timing: key missing, the sentinel, a measured 0, a slow resolution
DnsValues == {None, Some(-1), Some(0), Some(150)}
SslValues == {Some(-1), Some(600)}
ConnectValues == {Some(-1), Some(5)}
Hosts == {"a.com", "b.com"}

DnsRequests ==
    {[host |-> h, timings |-> [dns |-> d, ssl |-> s, connect |-> c]] :
        h \in Hosts, d \in DnsValues, s \in SslValues, c \in ConnectValues}

DnsRequestLists == UNION {[1..n -> DnsRequests] : n \in 0..MaxReqs}

InitDns ==
    /\ IdlePipe
    /\ \E xs \in DnsRequestLists :
          reqs = [i \in 1..Len(xs) |->
                    Request(i, "GET", <<"https://", xs[i].host, "/">>, 200,
                            "text/plain", 10, 100, "other", xs[i].timings)]
    /\ done = {}
    /\ dns_analysis = Unset
    /\ enhanced_tp_analysis = Unset
    /\ breakdown_stats = Unset
    /\ IdleSummary
    /\ IdleCritical
    /\ IdleBreak

AnalyzeDnsConnectionTiming ==
    /\ "analyze_dns_connection_timing" \notin done
    /\ dns_analysis' = analyze_dns_connection_timing(reqs)
    /\ done' = done \cup {"analyze_dns_connection_timing"}
    /\ UNCHANGED <<reqs, header, summaryVars, criticalVars,
                   enhanced_tp_analysis, breakdown_stats, breakVars,
                   pipeVars>>

NextDns == AnalyzeDnsConnectionTiming

SpecDns == InitDns /\ [][NextDns]_vars

\* the measured samples of one phase: present and not negative
Samples(key) ==
    {i \in 1..Len(reqs) :
        /\ ~IsNone(reqs[i].timings[key])
        /\ Get(reqs[i].timings[key]) >= 0}

RECURSIVE SumOver(_, _)
SumOver(S, key) ==
    IF S = {} THEN 0
    ELSE LET i == CHOOSE x \in S : TRUE
         IN  Get(reqs[i].timings[key]) + SumOver(S \ {i}, key)

ExpectedAverage(key) ==
    IF Samples(key) = {} THEN NotAvailable
    ELSE Number(RoundHalfEven(10 * SumOver(Samples(key), key),
                              Cardinality(Samples(key))))

\* C5: when no request has a dns timing >= 0, avg_dns_time is the marker
\* "N/A" and not a number; likewise avg_ssl_time; with at least one valid
\* sample the average is that of the valid samples alone.
C5_SentinelPropagation ==
    "analyze_dns_connection_timing" \in done =>
        /\ dns_analysis.avg_dns_time = ExpectedAverage("dns")
        /\ dns_analysis.avg_ssl_time = ExpectedAverage("ssl")
        /\ Samples("dns") = {} => dns_analysis.avg_dns_time = NotAvailable
        /\ Samples("ssl") = {} => dns_analysis.avg_ssl_time = NotAvailable

\* requests were analysed and every dns timing is -1 or missing, of both kinds
C5_Witness ==
    /\ "analyze_dns_connection_timing" \in done
    /\ Len(reqs) >= 2
    /\ Samples("dns") = {}
    /\ \E i \in 1..Len(reqs) : IsNone(reqs[i].timings.dns)
    /\ \E i \in 1..Len(reqs) : reqs[i].timings.dns = Some(-1)
    /\ Samples("ssl") # {}
    /\ dns_analysis.avg_dns_time = NotAvailable

---------------------------------------------------------------------------
(* HAR documents.  An entry keeps the fields the programs read; its        *)
(* resourceType field is the entry's "_resourceType", None when the        *)
(* capture has no such key.  MIME types are token sequences like URLs.     *)

Entry(method, url, status, mime, size, text, encoding, time, rtype, timings) ==
    [request |-> [method |-> method, url |-> url],
     response |-> [status |-> status,
                   content |-> [mimeType |-> mime, size |-> size,
                                text |-> text, encoding |-> encoding]],
     time |-> time, resourceType |-> rtype, timings |-> timings]

Har(pages, entries) == [log |-> [pages |-> pages, entries |-> entries]]

\* Malformed input is a record with a field defect that names the member
\* that is null, missing or undecodable (for a HAR file also: the file that
\* is missing or is not JSON); the record keeps a placeholder for that
\* member, which no operator reads.
Defective(entry, d) == [k \in DOMAIN entry \cup {"defect"} |->
                           IF k = "defect" THEN d ELSE entry[k]]

defect_of(x) == IF "defect" \in DOMAIN x THEN x.defect ELSE "none"

---------------------------------------------------------------------------
(* break_har.py: the resource classifier and extract_har_data.             *)

\* The file extensions that are a prefix of an extension token's characters
\* ('.js' in 'x.json' is true in Python).
ExtPrefixes(tok) ==
    CASE tok = "json" -> {"js"}
      [] tok = "jsx" -> {"js", "jsx"}
      [] tok = "tsx" -> {"ts", "tsx"}
      [] tok = "html" -> {"htm", "html"}
      [] tok = "woff2" -> {"woff", "woff2"}
      [] tok = "jsdelivr" -> {"js"}
      [] OTHER -> {tok}

\* ('.' + ext) in url_lower, for a URL of lower-case tokens
ext_in(url, ext) ==
    \E i \in 1..(Len(url) - 1) : url[i] = "." /\ ext \in ExtPrefixes(url[i + 1])

any_ext_in(url, exts) == \E e \in exts : ext_in(url, e)

_determine_resource_type(url, mime_type, har_resource_type) ==
    IF ~IsNone(har_resource_type) /\ Get(har_resource_type) # ""
       /\ Get(har_resource_type) # "other"
    THEN Get(har_resource_type)
    ELSE
    LET m == IF IsNone(mime_type) THEN <<>> ELSE Get(mime_type)
    IN  IF m # <<>> /\ (Contains(m, <<"javascript">>)
                        \/ Contains(m, <<"application", "/", "json">>))
        THEN "script"
        ELSE IF m # <<>> /\ Contains(m, <<"text", "/", "css">>) THEN "stylesheet"
        ELSE IF m # <<>> /\ Contains(m, <<"image", "/">>) THEN "image"
        ELSE IF m # <<>> /\ (Contains(m, <<"font", "/">>)
                             \/ Contains(m, <<"application", "/", "font">>))
        THEN "font"
        ELSE IF m # <<>> /\ Contains(m, <<"text", "/", "html">>) THEN "document"
        ELSE IF m # <<>> /\ Contains(m, <<"video", "/">>) THEN "media"
        ELSE IF m # <<>> /\ Contains(m, <<"audio", "/">>) THEN "media"
        ELSE IF any_ext_in(url, {"js", "jsx", "ts", "tsx"}) THEN "script"
        ELSE IF any_ext_in(url, {"css", "scss", "sass"}) THEN "stylesheet"
        ELSE IF any_ext_in(url, {"jpg", "jpeg", "png", "gif", "svg", "webp", "ico"})
        THEN "image"
        ELSE IF any_ext_in(url, {"woff", "woff2", "ttf", "eot", "otf"}) THEN "font"
        ELSE IF any_ext_in(url, {"html", "htm"}) THEN "document"
        ELSE IF any_ext_in(url, {"mp4", "avi", "mov", "wmv", "mp3", "wav"})
        THEN "media"
        ELSE "other"

\* onLoad below 3 / 5 / 10 seconds, in ms
_calculate_performance_grade(page_load_ms, total_requests) ==
    IF page_load_ms < 3000 /\ total_requests < 50 THEN "EXCELLENT"
    ELSE IF page_load_ms < 3000 THEN "GOOD"
    ELSE IF page_load_ms < 5000 THEN "FAIR"
    ELSE IF page_load_ms < 10000 THEN "POOR"
    ELSE "CRITICAL"

\* round(sum(xs) / len(xs), 2) in hundredths, 0 for an empty list
average_2dp(xs) == IF xs = <<>> THEN 0 ELSE RoundHalfEven(SumSeq(xs) * 100, Len(xs))

_calculate_performance_metrics(requests, page_timings, total_size) ==
    IF requests = <<>> THEN <<>>
    ELSE
    LET Positive(x) == x > 0
        times == SelectSeq([i \in 1..Len(requests) |-> requests[i].time], Positive)
        dns == SelectSeq([i \in 1..Len(requests) |-> requests[i].timings.dns], Positive)
        ssl == SelectSeq([i \in 1..Len(requests) |-> requests[i].timings.ssl], Positive)
        con == SelectSeq([i \in 1..Len(requests) |-> requests[i].timings.connect], Positive)
        types == {requests[i].resource_type : i \in 1..Len(requests)}
        Of(t) == {i \in 1..Len(requests) : requests[i].resource_type = t}
        OfSeq(t) ==
            LET IsT(r) == r.resource_type = t IN SelectSeq(requests, IsT)
    IN  [dom_ready_ms |-> page_timings.onContentLoad,
         page_load_ms |-> page_timings.onLoad,
         performance_grade |->
            _calculate_performance_grade(page_timings.onLoad, Len(requests)),
         avg_request_time |-> average_2dp(times),
         max_request_time |-> IF times = <<>> THEN 0 ELSE MaxSeq(times),
         avg_dns_time |-> average_2dp(dns),
         avg_ssl_time |-> average_2dp(ssl),
         avg_connect_time |-> average_2dp(con),
         total_size_mb |-> RoundHalfEven(total_size * 100, 1024 * 1024),
         resource_breakdown |->
            [t \in types |->
                [count |-> Cardinality(Of(t)),
                 size |-> SumSeq([k \in 1..Len(OfSeq(t)) |-> OfSeq(t)[k].size]),
                 time |-> SumSeq([k \in 1..Len(OfSeq(t)) |-> OfSeq(t)[k].time])]]]

extract_har_data(har_data) ==
    LET entries == har_data.log.entries
        pages == har_data.log.pages
        Default0(o) == IF IsNone(o) THEN 0 ELSE Get(o)
        page_timings ==
            IF pages = <<>> THEN [onContentLoad |-> 0, onLoad |-> 0]
            ELSE [onContentLoad |-> Default0(page_timing(pages[1], "onContentLoad")),
                  onLoad |-> Default0(page_timing(pages[1], "onLoad"))]
        request_obj(i) ==
            LET e == entries[i]
            IN  [index |-> i - 1,
                 url |-> e.request.url,
                 domain |-> netloc(e.request.url),
                 method |-> e.request.method,
                 status |-> e.response.status,
                 size |-> e.response.content.size,
                 mime_type |-> e.response.content.mimeType,
                 resource_type |->
                    _determine_resource_type(e.request.url,
                        Some(e.response.content.mimeType), e.resourceType),
                 time |-> e.time,
                 timings |-> [dns |-> timing_get(e.timings, "dns"),
                              connect |-> timing_get(e.timings, "connect"),
                              ssl |-> timing_get(e.timings, "ssl"),
                              total |-> e.time]]
        requests == [i \in 1..Len(entries) |-> request_obj(i)]
        types == {requests[i].resource_type : i \in 1..Len(requests)}
        total_size == SumSeq([i \in 1..Len(requests) |-> requests[i].size])
        IsFailed(r) == r.status >= 400
        IsSlow(r) == r.time > 1000
    IN  [page_timings |-> page_timings,
         metrics |-> _calculate_performance_metrics(requests, page_timings, total_size),
         requests |-> requests,
         resource_types |->
            [t \in types |->
                LET IsT(r) == r.resource_type = t IN SelectSeq(requests, IsT)],
         failed_requests |-> SelectSeq(requests, IsFailed),
         slow_requests |-> SelectSeq(requests, IsSlow),
         totals |->
            [total_requests |-> Len(requests),
             total_size |-> total_size,
             total_size_mb |-> RoundHalfEven(total_size * 100, 1024 * 1024),
             failed_count |-> Len(SelectSeq(requests, IsFailed)),
             slow_count |-> Len(SelectSeq(requests, IsSlow))]]

---------------------------------------------------------------------------
(* SpecClassify: _determine_resource_type over bounded triples.            *)

ClassifyUrls ==
    {<<"https://", "h", "/", "api">>,
     <<"https://", "h", "/", "x", ".", "css">>,
     <<"https://", "h", "/", "x", ".", "json">>,
     <<"https://", "h", "/", "x", ".", "png">>,
     <<"https://", "h", "/", "x", ".", "woff2">>,
     <<"https://", "h", "/", "x", ".", "html">>,
     <<"https://", "h", "/", "x", ".", "mp4">>,
     <<"https://", "h", "/", "x", ".", "css", "?", "v">>,
     <<"https://", "cdn", ".", "jsdelivr", ".", "net", "/", "x", ".", "css">>,
     <<"https://", "h", "/", "x", ".", "css", "?", "f", "=", "a", ".", "js">>}

ClassifyMimes ==
    {None, Some(<<>>),
     Some(<<"application", "/", "javascript">>),
     Some(<<"application", "/", "json">>),
     Some(<<"text", "/", "css">>),
     Some(<<"image", "/", "png">>),
     Some(<<"font", "/", "woff2">>),
     Some(<<"text", "/", "html">>),
     Some(<<"video", "/", "mp4">>),
     Some(<<"audio", "/", "mpeg">>),
     Some(<<"application", "/", "octet-stream">>)}

\* "_resourceType" as browsers write it, and its absence
ClassifyHints ==
    {None, Some(""), Some("other"), Some("script"), Some("stylesheet"),
     Some("document"), Some("xhr"), Some("fetch")}

Categories ==
    {"script", "stylesheet", "image", "font", "document", "media", "other"}

InitClassify ==
    /\ IdlePipe
    /\ \E u \in ClassifyUrls, m \in ClassifyMimes, h \in ClassifyHints :
          classified = [url |-> u, mime_type |-> m, har_resource_type |-> h,
                        result |-> None]
    /\ har = Unset
    /\ structured_data = Unset
    /\ reqs = <<>>
    /\ done = {}
    /\ IdleSummary
    /\ IdleCritical
    /\ IdleAudit

DetermineResourceType ==
    /\ "_determine_resource_type" \notin done
    /\ classified' =
          [classified EXCEPT !.result =
              Some(_determine_resource_type(classified.url, classified.mime_type,
                                            classified.har_resource_type))]
    /\ done' = done \cup {"_determine_resource_type"}
    /\ UNCHANGED <<reqs, header, summaryVars, criticalVars, auditVars,
                   har, structured_data, pipeVars>>

NextClassify == DetermineResourceType

SpecClassify == InitClassify /\ [][NextClassify]_vars

\* C7: for every (url, mimeType, harHintedType), _determine_resource_type
\* returns one of script, stylesheet, image, font, document, media, other.
C7_ClassificationTotal ==
    "_determine_resource_type" \in done =>
        /\ ~IsNone(classified.result)
        /\ Get(classified.result) \in Categories

---------------------------------------------------------------------------
(* break_har_for_single_analysis.main, step 2: the request summary.        *)

summary_of(entries) ==
    [i \in 1..Len(entries) |->
        Request(i, entries[i].request.method, entries[i].request.url,
                entries[i].response.status, entries[i].response.content.mimeType,
                entries[i].response.content.size, entries[i].time,
                IF IsNone(entries[i].resourceType) THEN "unknown"
                ELSE Get(entries[i].resourceType),
                entries[i].timings)]

---------------------------------------------------------------------------
(* analyze_single_har_performance.main, RESOURCE BREAKDOWN.                *)

\* round(x / 1024, 1) in tenths of a KB
kb_1dp(x) == RoundHalfEven(x * 10, 1024)

main_resource_breakdown(rs) ==
    LET n == Len(rs)
        idx == [i \in 1..n |-> i]
        IsFirst(i) == \A j \in 1..(i - 1) : rs[j].resourceType # rs[i].resourceType
        firsts == SelectSeq(idx, IsFirst)
        Stat(typ) ==
            LET IsT(r) == r.resourceType = typ
                group == SelectSeq(rs, IsT)
                total_size == SumSeq([k \in 1..Len(group) |-> group[k].size])
            IN  [typ |-> typ, count |-> Len(group),
                 total_size |-> total_size,
                 total_size_kb |-> kb_1dp(total_size),
                 avg_size |-> RoundHalfEven(total_size * 10, Len(group) * 1024)]
        stats == [k \in 1..Len(firsts) |-> Stat(rs[firsts[k]].resourceType)]
        order == SortDescBy([k \in 1..Len(stats) |-> stats[k].total_size_kb])
    IN  [k \in 1..Len(stats) |-> stats[order[k]]]

---------------------------------------------------------------------------
(* analyze_enhanced_third_party.                                           *)

\* the characters of a host name as tokens, for the hosts of the model
domain_tokens(domain) ==
    CASE domain = "a.com" -> <<"a", ".", "com">>
      [] domain = "b.com" -> <<"b", ".", "com">>
      [] domain = "h" -> <<"h">>
      [] domain = "cdn.cloudflare.com" -> <<"cdn", ".", "cloudflare", ".", "com">>
      [] domain = "www.facebook.com" -> <<"www", ".", "facebook", ".", "com">>
      [] OTHER -> <<domain>>

\* third_party_categories, in the order of the dict
third_party_categories ==
    << [category |-> "analytics",
        keywords |-> {<<"google-analytics">>, <<"googletagmanager">>, <<"analytics">>,
                      <<"gtm">>, <<"ga">>, <<"mixpanel">>, <<"segment">>}],
       [category |-> "advertising",
        keywords |-> {<<"doubleclick">>, <<"adsystem">>, <<"googlesyndication">>,
                      <<"facebook", ".", "com">>, <<"adsrvr">>, <<"amazon-adsystem">>}],
       [category |-> "social",
        keywords |-> {<<"facebook">>, <<"twitter">>, <<"linkedin">>, <<"instagram">>,
                      <<"pinterest">>, <<"youtube">>}],
       [category |-> "cdn",
        keywords |-> {<<"cloudflare">>, <<"amazonaws">>, <<"cloudfront">>, <<"fastly">>,
                      <<"jsdelivr">>, <<"cdnjs">>}],
       [category |-> "performance",
        keywords |-> {<<"signalfx">>, <<"newrelic">>, <<"datadog">>, <<"pingdom">>}],
       [category |-> "security",
        keywords |-> {<<"cookielaw">>, <<"onetrust">>, <<"cloudflare">>}],
       [category |-> "fonts",
        keywords |-> {<<"fonts", ".", "googleapis">>, <<"fonts", ".", "gstatic">>,
                      <<"typekit">>}],
       [category |-> "maps",
        keywords |-> {<<"maps", ".", "googleapis">>, <<"mapbox">>}] >>

categorize_domain(domain) ==
    LET Hit(k) == \E kw \in third_party_categories[k].keywords :
                      Contains(domain_tokens(domain), kw)
        hits == {k \in 1..Len(third_party_categories) : Hit(k)}
    IN  IF hits = {} THEN "other"
        ELSE third_party_categories[CHOOSE k \in hits : \A j \in hits : k <= j].category

analyze_enhanced_third_party(requests) ==
    LET n == Len(requests)
        idx == [i \in 1..n |-> i]
        domain(i) == netloc(requests[i].url)
        IsFirst(i) == \A j \in 1..(i - 1) : domain(j) # domain(i)
        firsts == SelectSeq(idx, IsFirst)
        domains == [k \in 1..Len(firsts) |-> domain(firsts[k])]
        Stats(d) ==
            LET InD(i) == domain(i) = d
                mine == SelectSeq(idx, InD)
                Blocking(i) == InD(i) /\ requests[i].time > 1000
                Failed(i) == InD(i) /\ requests[i].status >= 400
                slow == SelectSeq(idx, Blocking)
                total_time == SumSeq([k \in 1..Len(mine) |-> requests[mine[k]].time])
                total_size == SumSeq([k \in 1..Len(mine) |-> requests[mine[k]].size])
            IN  [category |-> categorize_domain(d),
                 requests |-> Len(mine),
                 total_time |-> total_time,
                 total_size |-> total_size,
                 avg_time |-> RoundHalfEven(total_time * 10, Len(mine)),
                 blocking_time |-> SumSeq([k \in 1..Len(slow) |-> requests[slow[k]].time]),
                 failed_requests |-> Len(SelectSeq(idx, Failed)),
                 total_size_kb |-> kb_1dp(total_size)]
        order == SortDescBy([k \in 1..Len(domains) |-> Stats(domains[k]).total_time])
        sorted_domains == [k \in 1..Len(domains) |-> domains[order[k]]]
        categories == {Stats(d).category : d \in Range(domains)}
        Category(c) ==
            LET InC(d) == Stats(d).category = c
                ds == SelectSeq(domains, InC)
                IsBlocking(d) == InC(d) /\ Stats(d).blocking_time > 0
            IN  [domains |-> Len(ds),
                 requests |-> SumSeq([k \in 1..Len(ds) |-> Stats(ds[k]).requests]),
                 total_time |-> SumSeq([k \in 1..Len(ds) |-> Stats(ds[k]).total_time]),
                 blocking_requests |-> Len(SelectSeq(domains, IsBlocking))]
        VeryBlocking(d) == Stats(d).blocking_time > 2000
    IN  [domain_impact |-> [d \in Range(Take(sorted_domains, 15)) |-> Stats(d)],
         category_breakdown |-> [c \in categories |-> Category(c)],
         total_third_party_domains |-> Len(domains),
         high_impact_domains |-> Take(sorted_domains, 5),
         blocking_third_parties |-> SelectSeq(domains, VeryBlocking)]

---------------------------------------------------------------------------
(* SpecSizes: the size aggregations over HARs whose entries may report a   *)
(* negative response size (browsers write -1 for an unknown size).         *)

SizeValues == {-1, 0, 2048}
SizeHosts == {"a.com", "cdn.cloudflare.com"}
SizeOutcomes == {[time |-> 100, status |-> 200], [time |-> 1500, status |-> 404]}

SizeEntries ==
    {Entry("GET", <<"https://", h, "/", "x", ".", "js">>, o.status,
           <<"application", "/", "javascript">>, sz, None, None, o.time,
           Some("script"), NoTimings) :
        h \in SizeHosts, sz \in SizeValues, o \in SizeOutcomes}

SizeEntryLists == UNION {[1..n -> SizeEntries] : n \in 0..MaxReqs}

SizePage == [pageTimings |-> Some([onContentLoad |-> Some(1000), onLoad |-> Some(2000)])]

InitSizes ==
    /\ IdlePipe
    /\ \E es \in SizeEntryLists :
          /\ har = Har(<<SizePage>>, es)
          /\ reqs = summary_of(es)
    /\ header = [log |-> [pages |-> <<SizePage>>]]
    /\ done = {}
    /\ structured_data = Unset
    /\ classified = Unset
    /\ timing = Unset
    /\ agent_summary = Unset
    /\ IdleCritical
    /\ IdleAudit

ExtractHarData ==
    /\ "extract_har_data" \notin done
    /\ structured_data' = extract_har_data(har)
    /\ done' = done \cup {"extract_har_data"}
    /\ UNCHANGED <<reqs, header, summaryVars, criticalVars, auditVars, har, classified,
                   pipeVars>>

MainResourceBreakdown ==
    /\ "resource_breakdown" \notin done
    /\ breakdown_stats' = main_resource_breakdown(reqs)
    /\ done' = done \cup {"resource_breakdown"}
    /\ UNCHANGED <<reqs, header, summaryVars, criticalVars, dns_analysis,
                   enhanced_tp_analysis, breakVars, pipeVars>>

AnalyzeEnhancedThirdParty ==
    /\ "analyze_enhanced_third_party" \notin done
    /\ enhanced_tp_analysis' = analyze_enhanced_third_party(reqs)
    /\ done' = done \cup {"analyze_enhanced_third_party"}
    /\ UNCHANGED <<reqs, header, summaryVars, criticalVars, dns_analysis,
                   breakdown_stats, breakVars, pipeVars>>

NextSizes ==
    \/ ExtractHarData
    \/ MainResourceBreakdown
    \/ AnalyzeEnhancedThirdParty

SpecSizes == InitSizes /\ [][NextSizes]_vars

\* C6: for every HAR, negative response sizes included, every aggregated
\* total size is >= 0: the overall total and the per-type totals of
\* extract_har_data, the per-type totals of main's resource breakdown and the
\* per-domain totals of analyze_enhanced_third_party.
C6_TotalsNonNegative ==
    /\ "extract_har_data" \in done =>
          /\ structured_data.totals.total_size >= 0
          /\ structured_data.metrics = <<>>
             \/ \A t \in DOMAIN structured_data.metrics.resource_breakdown :
                    structured_data.metrics.resource_breakdown[t].size >= 0
    /\ "resource_breakdown" \in done =>
          \A k \in 1..Len(breakdown_stats) : breakdown_stats[k].total_size >= 0
    /\ "analyze_enhanced_third_party" \in done =>
          \A d \in DOMAIN enhanced_tp_analysis.domain_impact :
              enhanced_tp_analysis.domain_impact[d].total_size >= 0

---------------------------------------------------------------------------
(* analyze_critical_path.  The text of a response body is a document (a    *)
(* sequence of parts); a part of kind "space" is white space, "html" an    *)
(* opening html tag, "doctype" a doctype declaration, "text" other text.   *)
(* An entry whose content.encoding is base64 holds the base64 form of its  *)
(* document: that form has no '<', so it carries no HTML marker before it  *)
(* is decoded, and decoding gives the document back.                       *)

\* url.split('/'): the number of pieces ("https://" holds two separators)
split_count(url) ==
    1 + Cardinality({i \in 1..Len(url) : url[i] = "/"})
      + 2 * Cardinality({i \in 1..Len(url) : url[i] = "https://"})

\* url.split('/')[-1]: the tokens after the last separator
split_last(url) ==
    LET IsSep(i) == url[i] \in {"/", "https://"}
        seps == {i \in 1..Len(url) : IsSep(i)}
    IN  IF seps = {} THEN url
        ELSE SubSeq(url, (CHOOSE i \in seps : \A j \in seps : j <= i) + 1, Len(url))

\* s.strip() of a document
strip(doc) ==
    LET solid == {i \in 1..Len(doc) : doc[i].kind # "space"}
    IN  IF solid = {} THEN <<>>
        ELSE SubSeq(doc, CHOOSE i \in solid : \A j \in solid : i <= j,
                         CHOOSE i \in solid : \A j \in solid : j <= i)

\* '<html' in t or '<head' in t or '<!doctype html' in t, for t = doc.lower()
has_html_markers(doc) ==
    \E i \in 1..Len(doc) : doc[i].kind \in {"html", "head", "doctype"}

html_candidate(entries, i) ==
    LET entry == entries[i]
        url == entry.request.url
        content == entry.response.content
        mime_type == content.mimeType
        text == IF IsNone(content.text) THEN <<>> ELSE Get(content.text)
        is_base64 == content.encoding = Some("base64")
        is_html_mime == \/ Contains(mime_type, <<"text", "/", "html">>)
                        \/ Contains(mime_type, <<"application", "/", "xhtml">>)
        is_html_url == \/ EndsWith(url, <<".", "html">>)
                       \/ EndsWith(url, <<".", "htm">>)
                       \/ (url # <<>> /\ url[Len(url)] \in {"/", "https://"})
        has_html_content ==
            IF is_base64 /\ text # <<>> THEN has_html_markers(text)
            ELSE text # <<>> /\ ~is_base64 /\ has_html_markers(text)
        actual_content == text
    IN  [is_candidate |-> /\ (is_html_mime \/ is_html_url \/ has_html_content)
                          /\ entry.request.method = "GET"
                          /\ entry.response.status = 200,
         index |-> i - 1,
         url |-> url,
         mime_type |-> mime_type,
         has_content |-> strip(actual_content) # <<>>,
         content_length |-> Len(strip(actual_content)),
         actual_content |-> actual_content,
         is_main_document |->
            \/ i - 1 = 0
            \/ (split_last(url) = <<"/">> /\ split_count(url) <= 4)]

\* max(cs, key=content_length): the first of the longest
longest(cs) ==
    cs[CHOOSE k \in 1..Len(cs) :
          /\ \A j \in 1..Len(cs) : cs[j].content_length <= cs[k].content_length
          /\ \A j \in 1..(k - 1) : cs[j].content_length < cs[k].content_length]

\* calculate_critical_path_time over the resources that were not found
critical_path_time_of_unfound(resources) ==
    LET Missing(r) == ~r.found_in_har
        times == SelectSeq(resources, Missing)
    IN  IF times = <<>> THEN 0
        ELSE MaxSeq([k \in 1..Len(times) |-> times[k].time])

\* the time of the critical path when the resources load one after another
critical_path_time_in_series(resources) ==
    LET Found(r) == r.found_in_har
        valid == SelectSeq(resources, Found)
    IN  SumSeq([k \in 1..Len(valid) |-> valid[k].time])

calculate_critical_path_time(resources) ==
    LET Found(r) == r.found_in_har
        valid == SelectSeq(resources, Found)
    IN  IF valid = <<>> THEN 0
        ELSE MaxSeq([k \in 1..Len(valid) |-> valid[k].time])

\* the recommendations with the inlining advice ahead of the others
recommendations_inlining_first(resources) ==
    LET IsCss(r) == r.type = "stylesheet"
        IsJs(r) == r.type = "script"
        IsLarge(r) == r.size > 50000
        IsSlow(r) == r.time > 1000
        css_count == Len(SelectSeq(resources, IsCss))
        js_count == Len(SelectSeq(resources, IsJs))
        recommendations ==
            (IF css_count > 0 THEN <<"inline critical css">> ELSE <<>>)
            \o (IF css_count > 3 THEN <<"bundle css">> ELSE <<>>)
            \o (IF js_count > 0 THEN <<"async or defer">> ELSE <<>>)
            \o (IF SelectSeq(resources, IsLarge) # <<>>
                THEN <<"optimize large">> ELSE <<>>)
            \o (IF SelectSeq(resources, IsSlow) # <<>>
                THEN <<"investigate slow">> ELSE <<>>)
    IN  IF recommendations = <<>> THEN <<"well-optimized">> ELSE recommendations

\* the recommendations, each named by its rule
generate_critical_path_recommendations(resources) ==
    LET IsCss(r) == r.type = "stylesheet"
        IsJs(r) == r.type = "script"
        IsLarge(r) == r.size > 50000
        IsSlow(r) == r.time > 1000
        css_count == Len(SelectSeq(resources, IsCss))
        js_count == Len(SelectSeq(resources, IsJs))
        recommendations ==
            (IF css_count > 3 THEN <<"bundle css">> ELSE <<>>)
            \o (IF js_count > 0 THEN <<"async or defer">> ELSE <<>>)
            \o (IF SelectSeq(resources, IsLarge) # <<>>
                THEN <<"optimize large">> ELSE <<>>)
            \o (IF SelectSeq(resources, IsSlow) # <<>>
                THEN <<"investigate slow">> ELSE <<>>)
            \o (IF css_count > 0 THEN <<"inline critical css">> ELSE <<>>)
    IN  IF recommendations = <<>> THEN <<"well-optimized">> ELSE recommendations

\* the metrics and the value returned at lines 616-636
critical_path_result(resources, best_candidate) ==
    LET IsCss(r) == r.type = "stylesheet"
        IsJs(r) == r.type = "script"
    IN  [blocking_resources |-> resources,
         blocking_resources_count |-> Len(resources),
         css_blocking_count |-> Len(SelectSeq(resources, IsCss)),
         js_blocking_count |-> Len(SelectSeq(resources, IsJs)),
         critical_path_time_ms |-> calculate_critical_path_time(resources),
         has_render_blocking_css |-> SelectSeq(resources, IsCss) # <<>>,
         has_render_blocking_js |-> SelectSeq(resources, IsJs) # <<>>,
         recommendations |->
            generate_critical_path_recommendations(resources),
         analysis_available |-> TRUE,
         source_document |-> [url |-> best_candidate.url,
                              content_length |-> best_candidate.content_length,
                              index |-> best_candidate.index]]

\* the entries that meet an HTML criterion with GET and 200, in capture order
html_candidates(entries) ==
    LET all == [i \in 1..Len(entries) |-> html_candidate(entries, i)]
        IsCandidate(c) == c.is_candidate
    IN  SelectSeq(all, IsCandidate)

\* Strategy 2 (lines 581-598), for a non-empty list of candidates
select_best_candidate(candidates) ==
    LET IsMainWithContent(c) == c.is_main_document /\ c.has_content
        HasContent(c) == c.has_content
        main_docs == SelectSeq(candidates, IsMainWithContent)
        content_docs == SelectSeq(candidates, HasContent)
    IN  IF main_docs # <<>> THEN longest(main_docs)
        ELSE IF content_docs # <<>> THEN longest(content_docs)
        ELSE candidates[1]

analyze_critical_path(har_data, rs, bs) ==
    LET entries == har_data.log.entries
        candidates == html_candidates(entries)
        best_candidate == select_best_candidate(candidates)
    IN  IF entries = <<>>
        THEN [error |-> <<"No entries found in HAR file">>,
              blocking_resources |-> <<>>,
              analysis_available |-> FALSE,
              debug_info |-> [total_entries |-> 0]]
        ELSE IF candidates = <<>>
        THEN [error |-> <<"No HTML document found in HAR file">>,
              blocking_resources |-> <<>>,
              analysis_available |-> FALSE,
              debug_info |->
                 [total_entries |-> Len(entries),
                  first_few_urls |->
                     [i \in 1..Min(3, Len(entries)) |-> entries[i].request.url]]]
        ELSE IF strip(best_candidate.actual_content) = <<>>
        THEN [error |-> <<"HTML document found but content is empty (URL: ">>
                        \o best_candidate.url \o <<")">>,
              blocking_resources |-> <<>>,
              analysis_available |-> FALSE,
              debug_info |-> [selected_url |-> best_candidate.url,
                              html_candidates_count |-> Len(candidates)]]
        ELSE
        critical_path_result(
            parse_critical_resources(best_candidate.actual_content, rs, bs),
            best_candidate)

---------------------------------------------------------------------------
(* analyze_compression and analyze_caching.  A header is a record of a     *)
(* lower-case name and a value of tokens; a decimal number in a value is   *)
(* one token.                                                              *)

\* req.get("responseHeaders", []): the request records of
\* 02_requests_summary.json have no such key
response_headers(req) ==
    IF "responseHeaders" \in DOMAIN req THEN req.responseHeaders ELSE <<>>

get_header_value(headers, name) ==
    IF \E i \in 1..Len(headers) : headers[i].name = name
    THEN Some(headers[CHOOSE i \in 1..Len(headers) :
                        /\ headers[i].name = name
                        /\ \A j \in 1..(i - 1) : headers[j].name # name].value)
    ELSE None

\* the text-like content types of analyze_compression
compressible_types ==
    {<<"text", "/">>, <<"application", "/", "javascript">>,
     <<"application", "/", "json">>, <<"application", "/", "xml">>,
     <<"application", "/", "css">>, <<"image", "/", "svg">>}

\* int(size * 0.7), for the sizes whose product the float holds exactly
potential_savings(size) == (size * 7) \div 10

analyze_compression(requests) ==
    LET content_type(r) ==
            LET v == get_header_value(response_headers(r), "content-type")
            IN  IF Truthy(v) THEN Get(v) ELSE <<>>
        content_encoding(r) == get_header_value(response_headers(r), "content-encoding")
        is_text(r) == \E t \in compressible_types : Contains(content_type(r), t)
        Compressible(r) == is_text(r) /\ r.size > 1024
        Uncompressed(r) == Compressible(r) /\ ~Truthy(content_encoding(r))
        compressible == SelectSeq(requests, Compressible)
        uncompressed == SelectSeq(requests, Uncompressed)
        uncompressed_text ==
            [k \in 1..Len(uncompressed) |->
                [url |-> uncompressed[k].url,
                 size |-> uncompressed[k].size,
                 contentType |-> content_type(uncompressed[k]),
                 potential_savings |-> potential_savings(uncompressed[k].size)]]
    IN  [uncompressed_resources |-> uncompressed_text,
         total_potential_savings_kb |->
            kb_1dp(SumSeq([k \in 1..Len(uncompressed_text) |->
                             uncompressed_text[k].potential_savings])),
         total_compressible_kb |->
            kb_1dp(SumSeq([k \in 1..Len(compressible) |-> compressible[k].size])),
         compression_opportunity_count |-> Len(uncompressed_text)]

\* int() of a token of digits
int_of(tok) ==
    CASE tok = "0" -> 0
      [] tok = "60" -> 60
      [] tok = "3599" -> 3599
      [] tok = "3600" -> 3600
      [] tok = "86400" -> 86400
      [] OTHER -> -1

\* re.search(r"max-age=(\d+)", cache_control): the first match's number
max_age_match(cache_control) ==
    LET Match(i) == /\ cache_control[i] = "max-age"
                    /\ cache_control[i + 1] = "="
                    /\ int_of(cache_control[i + 2]) >= 0
        hits == {i \in 1..(Len(cache_control) - 2) : Match(i)}
    IN  IF hits = {} THEN None
        ELSE Some(int_of(cache_control[(CHOOSE i \in hits : \A j \in hits : i <= j) + 2]))

analyze_caching(requests) ==
    LET cache_control(r) == get_header_value(response_headers(r), "cache-control")
        expires(r) == get_header_value(response_headers(r), "expires")
        IsNoCache(r) == ~Truthy(cache_control(r)) /\ ~Truthy(expires(r))
        Aged(r) ==
            /\ ~IsNoCache(r)
            /\ Truthy(cache_control(r))
            /\ ~Contains(Get(cache_control(r)), <<"no-cache">>)
            /\ ~Contains(Get(cache_control(r)), <<"no-store">>)
            /\ Contains(Get(cache_control(r)), <<"max-age">>)
            /\ ~IsNone(max_age_match(Get(cache_control(r))))
        IsShort(r) == Aged(r) /\ Get(max_age_match(Get(cache_control(r)))) < 3600
        IsGood(r) == Aged(r) /\ ~IsShort(r)
        none == SelectSeq(requests, IsNoCache)
        short == SelectSeq(requests, IsShort)
        no_cache == [k \in 1..Len(none) |->
                        [url |-> none[k].url, size |-> none[k].size,
                         resourceType |-> none[k].resourceType]]
        short_cache ==
            [k \in 1..Len(short) |->
                [url |-> short[k].url,
                 max_age_hours |->
                    RoundHalfEven(Get(max_age_match(Get(cache_control(short[k])))) * 100,
                                  3600),
                 resourceType |-> short[k].resourceType]]
    IN  [no_cache_resources |-> Take(no_cache, 10),
         short_cache_resources |-> Take(short_cache, 10),
         well_cached_count |-> Len(SelectSeq(requests, IsGood)),
         cache_optimization_count |-> Len(no_cache) + Len(short_cache),
         \* the short-cache records have no size: they add 0
         total_potential_savings_kb |->
            kb_1dp(SumSeq([k \in 1..Len(no_cache) |-> no_cache[k].size]))]

---------------------------------------------------------------------------
(* Files.  A directory is a function from file names to file contents; a   *)
(* file name is a sequence of tokens, a file's content the sequence of     *)
(* JSON documents written to it.                                           *)

\* open(name, "a") and json.dump: the document is added to the content
append_file(files, name, doc) ==
    [n \in DOMAIN files \cup {name} |->
        IF n # name THEN files[n]
        ELSE IF name \in DOMAIN files THEN files[name] \o <<doc>> ELSE <<doc>>]

\* open(name, "w") and json.dump: the document replaces the content
write_file(files, name, doc) ==
    [n \in DOMAIN files \cup {name} |-> IF n = name THEN <<doc>> ELSE files[n]]

\* json.load of a file: its document, None when the file is missing or does
\* not hold exactly one document (the read raises)
read_json(files, name) ==
    IF name \in DOMAIN files /\ Len(files[name]) = 1 THEN Some(files[name][1])
    ELSE None

DigitTok == <<"0", "1", "2", "3", "4", "5", "6", "7", "8", "9">>

\* str(n)
RECURSIVE digits(_)
digits(n) ==
    IF n < 10 THEN <<DigitTok[n + 1]>>
    ELSE digits(n \div 10) \o <<DigitTok[(n % 10) + 1]>>

\* f"{n:02d}"
format_02d(n) == IF n < 10 THEN <<"0">> \o digits(n) ELSE digits(n)

\* s.lower() of a resource type
lower(s) ==
    CASE s = "XHR" -> "xhr"
      [] s = "Script" -> "script"
      [] OTHER -> s

HeaderFile == <<"01_header_and_metadata", ".json">>
SummaryFile == <<"02_requests_summary", ".json">>
IndexFile == <<"00_index_and_guide", ".json">>
ReadmeFile == <<"README", ".md">>
AgentSummaryFile == <<"agent_summary", ".json">>
chunk_file_name(n) == <<"03_requests_chunk_">> \o format_02d(n) \o <<".json">>
resource_type_file_name(rtype) == <<"04_resource_type_", lower(rtype), ".json">>

\* the order of characters among the tokens of chunk file names: '.' sorts
\* before every digit
tok_rank(t) ==
    IF \E d \in 1..10 : DigitTok[d] = t
    THEN CHOOSE d \in 1..10 : DigitTok[d] = t
    ELSE 0

\* a < b for file names with a common first token
RECURSIVE name_less(_, _)
name_less(a, b) ==
    IF a = <<>> THEN b # <<>>
    ELSE IF b = <<>> THEN FALSE
    ELSE IF a[1] = b[1] THEN name_less(Tail(a), Tail(b))
    ELSE tok_rank(a[1]) < tok_rank(b[1])

\* sorted(names)
sorted_names(names) ==
    [k \in 1..Cardinality(names) |->
        CHOOSE n \in names : Cardinality({m \in names : name_less(m, n)}) = k - 1]

---------------------------------------------------------------------------
(* break_har_for_single_analysis.main, step by step.                       *)

chunk_size == 10

header_data(data) == [log |-> [pages |-> data.log.pages]]

summary_data(data) ==
    [totalEntries |-> Len(data.log.entries), requests |-> summary_of(data.log.entries)]

\* entries[i:i+chunk_size] for the chunk with this number
chunk_data(entries, number) ==
    LET first == (number - 1) * chunk_size + 1
        chunk == SubSeq(entries, first, Min(first + chunk_size - 1, Len(entries)))
    IN  [chunkNumber |-> number, entryCount |-> Len(chunk), entries |-> chunk]

entry_resource_type(entry) ==
    IF IsNone(entry.resourceType) THEN "unknown" ELSE Get(entry.resourceType)

\* the resource types of the entries, in the order of first occurrence
resource_types(entries) ==
    LET IsFirst(i) == \A j \in 1..(i - 1) :
                          entry_resource_type(entries[j]) # entry_resource_type(entries[i])
        firsts == SelectSeq([i \in 1..Len(entries) |-> i], IsFirst)
    IN  [k \in 1..Len(firsts) |-> entry_resource_type(entries[firsts[k]])]

resource_data(entries, rtype) ==
    LET IsT(e) == entry_resource_type(e) = rtype
        mine == SelectSeq(entries, IsT)
    IN  [resourceType |-> rtype,
         count |-> Len(mine),
         requests |-> [k \in 1..Len(mine) |->
                          [url |-> mine[k].request.url,
                           method |-> mine[k].request.method,
                           status |-> mine[k].response.status,
                           size |-> mine[k].response.content.size,
                           time |-> mine[k].time]]]

\* the 04_resource_type files written one after the other, a later type
\* replacing an earlier one whose lower-case name is the same
RECURSIVE write_resource_types(_, _, _)
write_resource_types(files, entries, types) ==
    IF types = <<>> THEN files
    ELSE write_resource_types(
            write_file(files, resource_type_file_name(types[1]),
                       resource_data(entries, types[1])),
            entries, Tail(types))

index_data(entries, chunks) ==
    [totalEntries |-> Len(entries),
     chunksCreated |-> chunks,
     resourceTypesFound |-> Len(resource_types(entries))]

readme(entries, chunks, now) ==
    [total_requests |-> Len(entries), last_chunk |-> format_02d(chunks),
     created_on |-> now]

---------------------------------------------------------------------------
(* SpecPipeline: the chunker run on a HAR into a directory that does not   *)
(* exist yet, possibly run a second time on the same HAR and directory,    *)
(* and then the analyzer run on the directory.                             *)

ScenarioHead ==
    <<HeadPart(<<Tag("link", <<Attr("rel", Some(<<"stylesheet">>)),
                               Attr("href", Some(<<"a", ".", "css">>))>>)>>)>>

HtmlMime == <<"text", "/", "html">>
PageUrl == <<"https://", "h", "/">>
\* a page URL in which a.css occurs
CssPathUrl == <<"https://", "h", "/", "a", ".", "css", "/">>

HtmlEntry(url, time, encoding) ==
    Entry("GET", url, 200, HtmlMime, 512, Some(ScenarioHead), encoding, time,
          Some("document"), NoTimings)

CssEntry ==
    Entry("GET", <<"https://", "h", "/", "a", ".", "css">>, 200,
          <<"text", "/", "css">>, 2048, None, None, 300, Some("stylesheet"),
          NoTimings)

ScriptEntry ==
    Entry("GET", <<"https://", "a.com", "/", "x", ".", "js">>, 404,
          <<"application", "/", "javascript">>, -1, None, None, 1500, None,
          [dns |-> Some(150), ssl |-> Some(-1), connect |-> None])

\* an HTML response captured without its body
EmptyHtmlEntry ==
    Entry("GET", <<"https://", "h", "/", "empty">>, 200, HtmlMime, 0, None, None,
          100, Some("document"), NoTimings)

\* an HTML response that is no candidate: its status is not 200
FailedHtmlEntry ==
    Entry("GET", <<"https://", "h", "/", "missing">>, 404, HtmlMime, 0, None,
          None, 100, Some("document"), NoTimings)

PipeEntries ==
    {HtmlEntry(PageUrl, 100, None), HtmlEntry(PageUrl, 1200, None),
     HtmlEntry(CssPathUrl, 100, None), HtmlEntry(PageUrl, 100, Some("base64")),
     CssEntry, ScriptEntry, EmptyHtmlEntry, FailedHtmlEntry}

\* a capture of more entries than one chunk holds
LongEntries == [i \in 1..(chunk_size + 1) |-> IF i = 1 THEN ScriptEntry ELSE CssEntry]

PipeEntryLists == UNION {[1..n -> PipeEntries] : n \in 0..MaxReqs} \cup {LongEntries}

ScenarioPage ==
    [pageTimings |-> Some([onContentLoad |-> Some(4000), onLoad |-> Some(6000)])]

PipePages == {<<>>, <<ScenarioPage>>}

\* HAR paths that the chunker cannot process
HarDefects == {"file missing", "invalid json", "log missing", "entries missing"}

DefectiveHars == {Defective(Har(<<ScenarioPage>>, <<>>), d) : d \in HarDefects}

\* the chunker without its failure paths
chunker_never_raises(h, pc) == FALSE

\* whether the step pc of break_har_for_single_analysis.main ends the run:
\*   sys.exit(1) for a path that is no file (lines 76-78);
\*   json.load raises on a file that is not JSON (lines 85-86);
\*   json_data["log"] raises KeyError (line 90);
\*   json_data["log"]["entries"] raises KeyError (line 101)
chunker_raises(h, pc) ==
    \/ pc = "start" /\ defect_of(h) = "file missing"
    \/ pc = "read" /\ defect_of(h) = "invalid json"
    \/ pc = "header" /\ defect_of(h) = "log missing"
    \/ pc = "summary" /\ defect_of(h) = "entries missing"

\* the report without the page record it reads
report_never_raises(hdr) == FALSE

\* page = header["log"]["pages"][0] at line 114 raises IndexError
report_raises(hdr) == hdr.log.pages = <<>>

InitPipeline ==
    /\ \/ \E ps \in PipePages, es \in PipeEntryLists : har = Har(ps, es)
       \/ har \in DefectiveHars
    /\ has_bs \in BOOLEAN
    /\ output_dir = [exists |-> FALSE, files |-> <<>>]
    /\ chunker_pc = "start"
    /\ run = 1
    /\ json_data = Unset
    /\ chunk_number = 0
    /\ first_run_files = Unset
    /\ analyzer_pc = "start"
    /\ exit_code = None
    /\ compression_analysis = Unset
    /\ cache_analysis = Unset
    /\ full_har_data = Unset
    /\ critical_path_analysis = Unset
    /\ cp_raised = FALSE
    /\ call = Unset
    /\ pipelines = Unset
    /\ har_chunks = Unset
    /\ reqs = <<>>
    /\ done = {}
    /\ IdleSummary
    /\ html_content = Unset
    /\ resource_url = Unset
    /\ blocking_resources = Unset
    /\ resource = Unset
    /\ IdleAudit
    /\ structured_data = Unset
    /\ classified = Unset

analyzerState ==
    <<reqs, header, done, summaryVars, criticalVars, auditVars, analyzerVars, sharedVars>>

\* os.makedirs(output_dir, exist_ok=True)
ChunkerMakeDirs ==
    /\ chunker_pc = "start"
    /\ IF chunker_raises(har, chunker_pc)
       THEN /\ chunker_pc' = "failed"
            /\ UNCHANGED output_dir
       ELSE /\ output_dir' = [output_dir EXCEPT !.exists = TRUE]
            /\ chunker_pc' = "read"
    /\ UNCHANGED <<analyzerState, breakVars, run, json_data, chunk_number,
                   first_run_files>>

ChunkerRead ==
    /\ chunker_pc = "read"
    /\ IF chunker_raises(har, chunker_pc)
       THEN /\ chunker_pc' = "failed"
            /\ UNCHANGED json_data
       ELSE /\ json_data' = har
            /\ chunker_pc' = "header"
    /\ UNCHANGED <<analyzerState, breakVars, output_dir, run, chunk_number,
                   first_run_files>>

ChunkerWriteHeader ==
    /\ chunker_pc = "header"
    /\ IF chunker_raises(json_data, chunker_pc)
       THEN /\ chunker_pc' = "failed"
            /\ UNCHANGED output_dir
       ELSE /\ output_dir' = [output_dir EXCEPT
                        !.files = write_file(@, HeaderFile, header_data(json_data))]
            /\ chunker_pc' = "summary"
    /\ UNCHANGED <<analyzerState, breakVars, run, json_data, chunk_number,
                   first_run_files>>

ChunkerWriteSummary ==
    /\ chunker_pc = "summary"
    /\ IF chunker_raises(json_data, chunker_pc)
       THEN /\ chunker_pc' = "failed"
            /\ UNCHANGED <<output_dir, chunk_number>>
       ELSE /\ output_dir' = [output_dir EXCEPT
                        !.files = write_file(@, SummaryFile, summary_data(json_data))]
            /\ chunk_number' = 1
            /\ chunker_pc' = "chunks"
    /\ UNCHANGED <<analyzerState, breakVars, run, json_data, first_run_files>>

ChunkerWriteChunk ==
    /\ chunker_pc = "chunks"
    /\ (chunk_number - 1) * chunk_size < Len(json_data.log.entries)
    /\ output_dir' = [output_dir EXCEPT
                        !.files = write_file(@, chunk_file_name(chunk_number),
                                     chunk_data(json_data.log.entries, chunk_number))]
    /\ chunk_number' = chunk_number + 1
    /\ UNCHANGED <<analyzerState, breakVars, chunker_pc, run, json_data,
                   first_run_files>>

ChunkerWriteResourceTypes ==
    /\ chunker_pc = "chunks"
    /\ (chunk_number - 1) * chunk_size >= Len(json_data.log.entries)
    /\ output_dir' = [output_dir EXCEPT
                        !.files = write_resource_types(@, json_data.log.entries,
                                     resource_types(json_data.log.entries))]
    /\ chunker_pc' = "index"
    /\ UNCHANGED <<analyzerState, breakVars, run, json_data, chunk_number,
                   first_run_files>>

\* the index and the README, which carries the time of the run
ChunkerWriteIndex ==
    /\ chunker_pc = "index"
    /\ \E now \in {1, run} :
          output_dir' = [output_dir EXCEPT
              !.files = write_file(
                  write_file(@, IndexFile,
                             index_data(json_data.log.entries, chunk_number - 1)),
                  ReadmeFile,
                  readme(json_data.log.entries, chunk_number - 1, now))]
    /\ first_run_files' = IF run = 1 THEN output_dir'.files ELSE first_run_files
    /\ chunker_pc' = "done"
    /\ UNCHANGED <<analyzerState, breakVars, run, json_data, chunk_number>>

\* the chunker started again on the same HAR and output directory
ChunkerRerun ==
    /\ chunker_pc = "done"
    /\ run = 1
    /\ analyzer_pc = "start"
    /\ run' = 2
    /\ chunker_pc' = "start"
    /\ json_data' = Unset
    /\ chunk_number' = 0
    /\ UNCHANGED <<analyzerState, breakVars, output_dir, first_run_files>>

---------------------------------------------------------------------------
(* analyze_single_har_performance.main, step by step, on the directory the *)
(* chunker has filled.                                                     *)

\* the directory check and the load of the summary and the header
AnalyzerLoad ==
    /\ chunker_pc \in {"done", "failed"}
    /\ analyzer_pc = "start"
    /\ LET summary == read_json(output_dir.files, SummaryFile)
           hdr == read_json(output_dir.files, HeaderFile)
       IN  IF output_dir.exists /\ ~IsNone(summary) /\ ~IsNone(hdr)
           THEN /\ reqs' = Get(summary).requests
                /\ header' = Get(hdr)
                /\ analyzer_pc' = "report"
                /\ exit_code' = None
           ELSE /\ analyzer_pc' = "exited"
                /\ exit_code' = Some(1)
                /\ UNCHANGED <<reqs, header>>
    /\ UNCHANGED <<done, summaryVars, criticalVars, auditVars, breakVars, chunkerVars,
                   compression_analysis, cache_analysis, full_har_data,
                   critical_path_analysis,
                   cp_raised, sharedVars>>

\* the printed report, from PERFORMANCE OVERVIEW to RECOMMENDATIONS: line 114
\* reads header["log"]["pages"][0] outside any try
AnalyzerReport ==
    /\ analyzer_pc = "report"
    /\ IF report_raises(header)
       THEN /\ analyzer_pc' = "exited"
            /\ exit_code' = Some(1)
            /\ UNCHANGED <<timing, breakdown_stats>>
       ELSE /\ timing' = main_timing(reqs)
            /\ breakdown_stats' = main_resource_breakdown(reqs)
            /\ analyzer_pc' = "enhancements"
            /\ exit_code' = None
    /\ UNCHANGED <<reqs, header, done, agent_summary, criticalVars, dns_analysis,
                   enhanced_tp_analysis, breakVars, chunkerVars,
                   compression_analysis, cache_analysis, full_har_data,
                   critical_path_analysis,
                   cp_raised, sharedVars>>

AnalyzerEnhancements ==
    /\ analyzer_pc = "enhancements"
    /\ compression_analysis' = analyze_compression(reqs)
    /\ cache_analysis' = analyze_caching(reqs)
    /\ dns_analysis' = analyze_dns_connection_timing(reqs)
    /\ enhanced_tp_analysis' = analyze_enhanced_third_party(reqs)
    /\ analyzer_pc' = "reconstruct"
    /\ UNCHANGED <<reqs, header, done, summaryVars, criticalVars, breakdown_stats,
                   breakVars, chunkerVars, exit_code, full_har_data,
                   critical_path_analysis,
                   cp_raised, sharedVars>>

\* the entries of the chunk files, in the sorted order of the file names; a
\* chunk that does not load is skipped
RECURSIVE chunk_entries(_, _)
chunk_entries(files, names) ==
    IF names = <<>> THEN <<>>
    ELSE (IF IsNone(read_json(files, names[1])) THEN <<>>
          ELSE Get(read_json(files, names[1])).entries)
         \o chunk_entries(files, Tail(names))

\* the HAR rebuilt at lines 363-391 from the header and the chunk files
reconstructed(files, hdr) ==
    LET chunk_files ==
            sorted_names({n \in DOMAIN files : n[1] = "03_requests_chunk_"})
    IN  [log |-> [pages |-> hdr.log.pages,
                  entries |-> chunk_entries(files, chunk_files)]]

\* full_har_data = dict(header) is a shallow copy: the entries are stored in
\* the log object that header holds too
AnalyzerReconstruct ==
    /\ analyzer_pc = "reconstruct"
    /\ full_har_data' = reconstructed(output_dir.files, header)
    /\ header' = reconstructed(output_dir.files, header)
    /\ analyzer_pc' = "critical_path"
    /\ UNCHANGED <<reqs, done, summaryVars, criticalVars, auditVars, breakVars,
                   chunkerVars, exit_code, compression_analysis, cache_analysis,
                   critical_path_analysis,
                   cp_raised, sharedVars>>

AnalyzerCriticalPath ==
    /\ analyzer_pc = "critical_path"
    /\ critical_path_analysis' = analyze_critical_path(full_har_data, reqs, has_bs)
    /\ analyzer_pc' = "summary"
    /\ UNCHANGED <<reqs, header, done, summaryVars, criticalVars, auditVars,
                   breakVars, chunkerVars, exit_code, compression_analysis,
                   cache_analysis, full_har_data,
                   cp_raised, sharedVars>>

\* generate_agent_summary and the save to agent_summary.json
AnalyzerSummary ==
    /\ analyzer_pc = "summary"
    /\ agent_summary' =
          generate_agent_summary(
              Get(read_json(output_dir.files, SummaryFile)), header,
              Some([compression |-> compression_analysis,
                    caching |-> cache_analysis,
                    dns_connection |-> dns_analysis,
                    enhanced_third_party |-> enhanced_tp_analysis,
                    critical_path |-> critical_path_analysis]))
    /\ output_dir' = [output_dir EXCEPT
                        !.files = write_file(@, AgentSummaryFile, agent_summary')]
    /\ analyzer_pc' = "exited"
    /\ exit_code' = Some(0)
    /\ UNCHANGED <<reqs, header, done, timing, criticalVars, auditVars, breakVars,
                   chunker_pc, run, json_data, chunk_number, first_run_files,
                   compression_analysis, cache_analysis, full_har_data,
                   critical_path_analysis,
                   cp_raised, sharedVars>>

NextPipeline ==
    \/ ChunkerMakeDirs
    \/ ChunkerRead
    \/ ChunkerWriteHeader
    \/ ChunkerWriteSummary
    \/ ChunkerWriteChunk
    \/ ChunkerWriteResourceTypes
    \/ ChunkerWriteIndex
    \/ ChunkerRerun
    \/ AnalyzerLoad
    \/ AnalyzerReport
    \/ AnalyzerEnhancements
    \/ AnalyzerReconstruct
    \/ AnalyzerCriticalPath
    \/ AnalyzerSummary

SpecPipeline == InitPipeline /\ [][NextPipeline]_vars

---------------------------------------------------------------------------
(* Claims settled under SpecPipeline.                                      *)

ChunkPrefixes ==
    {"01_header_and_metadata", "02_requests_summary", "03_requests_chunk_",
     "04_resource_type_"}

\* the chunk files of a directory, with their contents
chunk_files_of(files) ==
    [n \in {m \in DOMAIN files : m[1] \in ChunkPrefixes} |-> files[n]]

SecondRunDone == run = 2 /\ chunker_pc = "done"

\* C8: when the chunker has run twice in a row on the same HAR and output
\* directory, the header, summary, chunk and resource-type files have the
\* same names and the same contents as after the first run.
C8_IdempotentChunking ==
    SecondRunDone =>
        chunk_files_of(output_dir.files) = chunk_files_of(first_run_files)

\* C8 witness: a second run has ended on a capture of two chunks, and its
\* README differs from the first run's while the chunk files do not.
C8_Witness ==
    /\ SecondRunDone
    /\ chunk_file_name(2) \in DOMAIN output_dir.files
    /\ resource_type_file_name("stylesheet") \in DOMAIN output_dir.files
    /\ output_dir.files[ReadmeFile] # first_run_files[ReadmeFile]
    /\ chunk_files_of(output_dir.files) = chunk_files_of(first_run_files)

IsScenarioHtml(e) ==
    /\ e.request.method = "GET"
    /\ e.response.status = 200
    /\ e.response.content.mimeType = HtmlMime
    /\ e.response.content.text = Some(ScenarioHead)

IsScenarioCss(e) ==
    /\ EndsWith(e.request.url, <<"a", ".", "css">>)
    /\ e.time = 300
    /\ e.response.content.size = 2048
    /\ e.response.status = 200
    /\ ~IsScenarioHtml(e)

\* onLoad = 6000 ms, one HTML entry and one a.css entry, in either order
IsScenarioHar(h) ==
    /\ h.log.pages # <<>>
    /\ page_timing(h.log.pages[1], "onLoad") = Some(6000)
    /\ Len(h.log.entries) = 2
    /\ \E i, j \in 1..2 :
          /\ i # j
          /\ IsScenarioHtml(h.log.entries[i])
          /\ IsScenarioCss(h.log.entries[j])

ScenarioHtmlEntry(h) ==
    h.log.entries[CHOOSE i \in 1..2 : IsScenarioHtml(h.log.entries[i])]

AnalyzerExited == analyzer_pc = "exited"

SummaryWritten ==
    /\ exit_code = Some(0)
    /\ ~IsNone(read_json(output_dir.files, AgentSummaryFile))

WrittenSummary == Get(read_json(output_dir.files, AgentSummaryFile))

ScenarioSummary ==
    /\ SummaryWritten
    /\ WrittenSummary.performance_summary.performance_grade = "POOR"
    /\ WrittenSummary.critical_issues.very_slow_requests = 0
    /\ WrittenSummary.critical_path_analysis.analysis_available
    /\ WrittenSummary.critical_path_analysis.blocking_resources_count = 1
    /\ WrittenSummary.critical_path_analysis.css_blocking_count = 1
    /\ WrittenSummary.critical_path_analysis.critical_path_time_ms = 300

\* C9 as stated: for a HAR with onLoad = 6000 ms, one HTML entry (GET, 200)
\* whose head links the stylesheet a.css and one entry whose URL ends in
\* a.css (time 300, size 2048, status 200), the chunker and then the analyzer
\* write a summary with grade POOR, 0 very slow requests, 1 blocking
\* resource, 1 blocking stylesheet and a critical path time of 300 ms.
C9_Scenario ==
    (AnalyzerExited /\ IsScenarioHar(har)) => ScenarioSummary

\* the HTML entry took less than 1000 ms and a.css does not occur in its URL
HtmlEntryFastAndApart(h) ==
    /\ ScenarioHtmlEntry(h).time < 1000
    /\ ~Contains(ScenarioHtmlEntry(h).request.url, <<"a", ".", "css">>)

\* C9 amended: the scenario yields that summary when, in addition, the HTML
\* entry itself took less than 1000 ms and a.css does not occur in its URL.
C9_ScenarioFastHtml ==
    (AnalyzerExited /\ IsScenarioHar(har) /\ HtmlEntryFastAndApart(har))
        => ScenarioSummary

\* C9 witness: the analyzer has exited on such a HAR and written the summary.
C9_Witness ==
    /\ AnalyzerExited
    /\ IsScenarioHar(har)
    /\ HtmlEntryFastAndApart(har)
    /\ ScenarioSummary

\* no HTML-detection criterion of analyze_critical_path holds of the entry:
\* not the MIME type, not the URL, not the body
NoHtmlCriterion(e) ==
    /\ ~Contains(e.response.content.mimeType, <<"text", "/", "html">>)
    /\ ~Contains(e.response.content.mimeType, <<"application", "/", "xhtml">>)
    /\ ~EndsWith(e.request.url, <<".", "html">>)
    /\ ~EndsWith(e.request.url, <<".", "htm">>)
    /\ ~EndsWith(e.request.url, <<"/">>)
    /\ \/ IsNone(e.response.content.text)
       \/ ~has_html_markers(Get(e.response.content.text))

NoHtmlHar(h) == \A i \in 1..Len(h.log.entries) : NoHtmlCriterion(h.log.entries[i])

BaseKeys ==
    {"performance_summary", "critical_issues", "resource_breakdown",
     "largest_assets", "slowest_requests", "failed_requests"}

\* the summary of the capture when no enhanced analysis is attached
BaseSummaryOf(h) == generate_agent_summary(summary_data(h), header_data(h), None)

\* C10: for every HAR none of whose entries meets an HTML-detection
\* criterion, the analyzer run completes and its summary has
\* critical_path_analysis.analysis_available = false with a non-empty error,
\* and performance_summary, critical_issues, resource_breakdown,
\* largest_assets, slowest_requests and failed_requests as they are computed
\* from the capture alone.
C10_NoHtmlScenario ==
    (AnalyzerExited /\ NoHtmlHar(har)) =>
        /\ SummaryWritten
        /\ BaseKeys \subseteq DOMAIN WrittenSummary
        /\ "critical_path_analysis" \in DOMAIN WrittenSummary
        /\ ~WrittenSummary.critical_path_analysis.analysis_available
        /\ WrittenSummary.critical_path_analysis.error # <<>>
        /\ \A k \in BaseKeys : WrittenSummary[k] = BaseSummaryOf(har)[k]

---------------------------------------------------------------------------
(* analyze_critical_path on malformed input: entries with a defect, a HAR  *)
(* object whose log is null, request records that lack their url.          *)

\* the entry as the .get() calls of lines 529-538 see it when none raises
effective_entry(entry) ==
    IF defect_of(entry) = "response missing"
    THEN [entry EXCEPT !.response =
            [status |-> 0,
             content |-> [mimeType |-> <<>>, size |-> 0, text |-> None,
                          encoding |-> None]]]
    ELSE IF defect_of(entry) = "text null"
    THEN [entry EXCEPT !.response.content.text = None]
    ELSE entry

\* whether the loop body of lines 528-567 raises on the entry:
\*   a null response, content or request has no .get (lines 530-533);
\*   a null mimeType has no .lower (line 536), a null url no .endswith (542);
\*   a null text of a candidate has no .strip (line 562)
entry_raises(entry) ==
    \/ defect_of(entry) \in {"response null", "content null", "request null",
                             "mimeType null", "url null"}
    \/ /\ defect_of(entry) = "text null"
       /\ html_candidate(<<effective_entry(entry)>>, 1).is_candidate

\* the exception the try block of analyze_critical_path ends with, if any
critical_path_raises(har_data, rs) ==
    IF defect_of(har_data) = "log null" THEN Some("AttributeError")
    ELSE
    LET entries == IF "log" \in DOMAIN har_data THEN har_data.log.entries ELSE <<>>
        effective == [i \in 1..Len(entries) |-> effective_entry(entries[i])]
        candidates == html_candidates(effective)
    IN  IF \E i \in 1..Len(entries) : entry_raises(entries[i])
        THEN Some("AttributeError")
        ELSE IF /\ candidates # <<>>
                /\ strip(select_best_candidate(candidates).actual_content) # <<>>
                /\ \E j \in 1..Len(rs) : "url" \notin DOMAIN rs[j]
        THEN \* req['url'] at line 661
             Some("KeyError")
        ELSE None

\* analyze_critical_path without its except clause
propagate_exception(e) == [raised |-> TRUE, value |-> <<>>]

\* the except clause of lines 638-644
handle_exception(e) ==
    [raised |-> FALSE,
     value |-> [error |-> <<"Critical path analysis failed: ", e>>,
                blocking_resources |-> <<>>,
                analysis_available |-> FALSE,
                debug_info |-> [exception |-> e]]]

\* the whole of analyze_critical_path: what it returns and whether it raises
analyze_critical_path_outcome(har_data, rs, bs) ==
    LET exc == critical_path_raises(har_data, rs)
        entries == IF "log" \in DOMAIN har_data THEN har_data.log.entries ELSE <<>>
        effective == [i \in 1..Len(entries) |-> effective_entry(entries[i])]
    IN  IF ~IsNone(exc) THEN handle_exception(Get(exc))
        ELSE [raised |-> FALSE,
              value |-> analyze_critical_path([log |-> [entries |-> effective]], rs, bs)]

---------------------------------------------------------------------------
(* SpecFailures: analyze_critical_path over well-formed and malformed      *)
(* inputs.                                                                 *)

EntryDefects ==
    {"response null", "response missing", "content null", "request null",
     "mimeType null", "url null", "text null", "text undecodable"}

FailureEntries ==
    {HtmlEntry(PageUrl, 100, None), CssEntry, EmptyHtmlEntry}
    \cup {Defective(HtmlEntry(PageUrl, 100, Some("base64")), d) : d \in EntryDefects}
    \cup {Defective(CssEntry, "text null"), Defective(CssEntry, "response missing")}

FailureEntryLists == UNION {[1..n -> FailureEntries] : n \in 0..MaxReqs}

FailureHars ==
    {[log |-> [entries |-> es]] : es \in FailureEntryLists}
    \cup {[creator |-> "x"],
          [log |-> [entries |-> <<>>], defect |-> "log null"]}

\* a request record whose url is missing
UrlLessRequest ==
    [entryNumber |-> 2, method |-> "GET", status |-> 200, mimeType |-> <<>>,
     size |-> 10, time |-> 50, resourceType |-> "other", timings |-> NoTimings]

FailureRequestLists ==
    {<<>>, summary_of(<<CssEntry>>), <<UrlLessRequest>>,
     summary_of(<<CssEntry>>) \o <<UrlLessRequest>>}

InitFailures ==
    /\ output_dir = Unset
    /\ chunker_pc = Unset
    /\ run = 0
    /\ json_data = Unset
    /\ chunk_number = 0
    /\ first_run_files = Unset
    /\ analyzer_pc = Unset
    /\ exit_code = None
    /\ compression_analysis = Unset
    /\ cache_analysis = Unset
    /\ critical_path_analysis = Unset
    /\ cp_raised = FALSE
    /\ call = Unset
    /\ pipelines = Unset
    /\ har_chunks = Unset
    /\ full_har_data \in FailureHars
    /\ reqs \in FailureRequestLists
    /\ has_bs \in BOOLEAN
    /\ done = {}
    /\ IdleSummary
    /\ html_content = Unset
    /\ resource_url = Unset
    /\ blocking_resources = Unset
    /\ resource = Unset
    /\ IdleAudit
    /\ IdleBreak

AnalyzeCriticalPath ==
    /\ "analyze_critical_path" \notin done
    /\ LET outcome == analyze_critical_path_outcome(full_har_data, reqs, has_bs)
       IN  /\ critical_path_analysis' = outcome.value
           /\ cp_raised' = outcome.raised
    /\ done' = done \cup {"analyze_critical_path"}
    /\ UNCHANGED <<reqs, header, summaryVars, criticalVars, auditVars, breakVars,
                   chunkerVars, analyzer_pc, exit_code, compression_analysis,
                   cache_analysis, full_har_data, sharedVars>>

NextFailures == AnalyzeCriticalPath

SpecFailures == InitFailures /\ [][NextFailures]_vars

\* C11: for every (har_data, reqs), malformed ones included,
\* analyze_critical_path returns and does not raise; when its try block
\* ended with an exception or it returned early, the value has
\* analysis_available = false, a non-empty error and no blocking resources.
C11_FailuresAsData ==
    "analyze_critical_path" \in done =>
        /\ ~cp_raised
        /\ ~IsNone(critical_path_raises(full_har_data, reqs)) =>
              ~critical_path_analysis.analysis_available
        /\ ~critical_path_analysis.analysis_available =>
              /\ critical_path_analysis.error # <<>>
              /\ critical_path_analysis.blocking_resources = <<>>

\* C11 witness: the call has returned for a HAR with an entry whose response
\* is null, with the failure reported in the value.
C11_Witness ==
    /\ "analyze_critical_path" \in done
    /\ ~cp_raised
    /\ "log" \in DOMAIN full_har_data
    /\ \E i \in 1..Len(full_har_data.log.entries) :
          defect_of(full_har_data.log.entries[i]) = "response null"
    /\ ~critical_path_analysis.analysis_available
    /\ critical_path_analysis.error = <<"Critical path analysis failed: ", "AttributeError">>

---------------------------------------------------------------------------
(* The summary file and the failure paths of the two scripts.              *)

SummaryKeys ==
    BaseKeys \cup {"compression_analysis", "caching_analysis",
                   "dns_connection_analysis", "enhanced_third_party_analysis",
                   "critical_path_analysis"}

SummaryFileExists == AgentSummaryFile \in DOMAIN output_dir.files

\* C12: an agent_summary.json in the directory holds one document with
\* exactly the eleven top-level keys, and a run of the analyzer whose header
\* has no page record to build the summary from exits with status 1 and
\* leaves no agent_summary.json.
C12_CompleteSummaryOrNone ==
    /\ SummaryFileExists =>
          /\ ~IsNone(read_json(output_dir.files, AgentSummaryFile))
          /\ DOMAIN WrittenSummary = SummaryKeys
    /\ (AnalyzerExited /\ report_raises(header)) =>
          /\ exit_code = Some(1)
          /\ ~SummaryFileExists

\* C12 witness: the analyzer has exited with status 0 and the file it wrote
\* has the eleven keys.
C12_Witness ==
    /\ AnalyzerExited
    /\ SummaryWritten
    /\ DOMAIN WrittenSummary = SummaryKeys
    /\ ~report_raises(header)

\* C13: for a HAR path that is no file, is not JSON or lacks log or
\* log.entries, the chunker never completes (it ends with status 1), and an
\* analyzer run whose input directory, 01 file or 02 file is missing exits
\* with status 1; in both cases the directory gets no agent_summary.json.
C13_InputErrorsFatal ==
    /\ defect_of(har) \in HarDefects =>
          /\ chunker_pc \in {"start", "read", "header", "summary", "failed"}
          /\ ~SummaryFileExists
          /\ AnalyzerExited => exit_code = Some(1)
    /\ (/\ AnalyzerExited
        /\ \/ ~output_dir.exists
           \/ IsNone(read_json(output_dir.files, HeaderFile))
           \/ IsNone(read_json(output_dir.files, SummaryFile))) =>
          /\ exit_code = Some(1)
          /\ ~SummaryFileExists

\* C13 witness: the chunker failed on a HAR without log.entries after writing
\* the 01 file, and the analyzer run on that directory exited with status 1.
C13_Witness ==
    /\ defect_of(har) = "entries missing"
    /\ chunker_pc = "failed"
    /\ HeaderFile \in DOMAIN output_dir.files
    /\ SummaryFile \notin DOMAIN output_dir.files
    /\ AnalyzerExited
    /\ exit_code = Some(1)
    /\ ~SummaryFileExists

---------------------------------------------------------------------------
(* SpecConcurrent: the workflow of app.analyze_single_har_workflow (the    *)
(* chunker, then the analyzer on har_chunks/<stem>) run for two HAR files  *)
(* at the same time; a step is one file-system operation of a script       *)
(* together with the computation that precedes it.                         *)

Runs == {1, 2}

\* a HAR file: its directory, the stem of its name and its content
HarFile(dir, stem, content) == [dir |-> dir, stem |-> stem, content |-> content]

ConcurrentHars ==
    {Har(<<ScenarioPage>>, <<HtmlEntry(PageUrl, 100, None), CssEntry>>),
     Har(<<ScenarioPage>>, <<ScriptEntry>>),
     Har(<<ScenarioPage>>, <<>>)}

HarFiles ==
    {HarFile(d, n, c) : d \in {"mon", "tue"}, n \in {"site", "shop"},
                        c \in ConcurrentHars}

\* Path(har_file).stem and os.path.join("har_chunks", har_base): the
\* directory is named by its last component
default_dir(har_file) == har_file.stem

\* the files of a directory the runs are said not to share
IsRunOutput(name) == name[1] = "03_requests_chunk_" \/ name = AgentSummaryFile

\* a directory after run p has stored doc under name
stored(d, p, name, doc) ==
    [files |-> write_file(d.files, name, doc),
     writer |-> IF IsRunOutput(name)
                THEN [n \in DOMAIN d.writer \cup {name} |->
                         IF n = name THEN p ELSE d.writer[n]]
                ELSE d.writer]

\* whether one of the names is an output stored by a run other than p
foreign(d, p, names) ==
    \E n \in names \cap DOMAIN d.writer : d.writer[n] # p

\* the summary of a HAR whose pipeline runs with nothing else running
summary_alone(h, bs) ==
    LET summary == summary_data(h)
        rs == summary.requests
    IN  generate_agent_summary(
            summary, header_data(h),
            Some([compression |-> analyze_compression(rs),
                  caching |-> analyze_caching(rs),
                  dns_connection |-> analyze_dns_connection_timing(rs),
                  enhanced_third_party |-> analyze_enhanced_third_party(rs),
                  critical_path |-> analyze_critical_path(h, rs, bs)]))

InitConcurrent ==
    /\ \E f \in [Runs -> HarFiles] :
          /\ <<f[1].dir, f[1].stem>> # <<f[2].dir, f[2].stem>>
          /\ pipelines = [p \in Runs |->
                [har_file |-> f[p], pc |-> "start", json_data |-> Unset,
                 chunk_number |-> 0, summary |-> Unset, header |-> Unset,
                 analyses |-> Unset, entries |-> Unset, exit_code |-> None,
                 shared |-> FALSE]]
    /\ har_chunks = <<>>
    /\ has_bs \in BOOLEAN
    /\ call = Unset
    /\ output_dir = Unset
    /\ chunker_pc = Unset
    /\ run = 0
    /\ json_data = Unset
    /\ chunk_number = 0
    /\ first_run_files = Unset
    /\ analyzer_pc = Unset
    /\ exit_code = None
    /\ compression_analysis = Unset
    /\ cache_analysis = Unset
    /\ full_har_data = Unset
    /\ critical_path_analysis = Unset
    /\ cp_raised = FALSE
    /\ reqs = <<>>
    /\ done = {}
    /\ IdleSummary
    /\ html_content = Unset
    /\ resource_url = Unset
    /\ blocking_resources = Unset
    /\ resource = Unset
    /\ IdleAudit
    /\ IdleBreak

concurrentRest ==
    <<reqs, header, done, summaryVars, criticalVars, auditVars, breakVars,
      chunkerVars, analyzerVars, call>>

\* run p stores doc under name in its directory and moves on
Store(p, name, doc, next) ==
    LET dir == default_dir(pipelines[p].har_file)
        d == har_chunks[dir]
    IN  /\ har_chunks' = [har_chunks EXCEPT ![dir] = stored(d, p, name, doc)]
        /\ pipelines' = [pipelines EXCEPT
              ![p].pc = next,
              ![p].chunk_number = IF next = "chunks" THEN @ + 1 ELSE @,
              ![p].shared = @ \/ foreign(d, p, {name})]

\* os.makedirs(output_dir, exist_ok=True) and the load of the HAR file
RunMakeDirs(p) ==
    /\ pipelines[p].pc = "start"
    /\ LET dir == default_dir(pipelines[p].har_file)
       IN  har_chunks' =
              [n \in DOMAIN har_chunks \cup {dir} |->
                  IF n \in DOMAIN har_chunks THEN har_chunks[n]
                  ELSE [files |-> <<>>, writer |-> <<>>]]
    /\ pipelines' = [pipelines EXCEPT ![p].pc = "header",
                                      ![p].json_data = pipelines[p].har_file.content]
    /\ UNCHANGED concurrentRest

RunWriteHeader(p) ==
    /\ pipelines[p].pc = "header"
    /\ Store(p, HeaderFile, header_data(pipelines[p].json_data), "summary")
    /\ UNCHANGED concurrentRest

RunWriteSummary(p) ==
    /\ pipelines[p].pc = "summary"
    /\ Store(p, SummaryFile, summary_data(pipelines[p].json_data), "chunks")
    /\ UNCHANGED concurrentRest

RunWriteChunk(p) ==
    /\ pipelines[p].pc = "chunks"
    /\ (pipelines[p].chunk_number - 1) * chunk_size
          < Len(pipelines[p].json_data.log.entries)
    /\ Store(p, chunk_file_name(pipelines[p].chunk_number),
             chunk_data(pipelines[p].json_data.log.entries,
                        pipelines[p].chunk_number), "chunks")
    /\ UNCHANGED concurrentRest

\* the resource type files, the index and the README
RunWriteGuides(p) ==
    /\ pipelines[p].pc = "chunks"
    /\ (pipelines[p].chunk_number - 1) * chunk_size
          >= Len(pipelines[p].json_data.log.entries)
    /\ LET dir == default_dir(pipelines[p].har_file)
           entries == pipelines[p].json_data.log.entries
           chunks == pipelines[p].chunk_number - 1
           typed == write_resource_types(har_chunks[dir].files, entries,
                                         resource_types(entries))
       IN  har_chunks' = [har_chunks EXCEPT ![dir].files =
              write_file(write_file(typed, IndexFile, index_data(entries, chunks)),
                         ReadmeFile, readme(entries, chunks, 1))]
    /\ pipelines' = [pipelines EXCEPT ![p].pc = "load"]
    /\ UNCHANGED concurrentRest

\* the analyzer's directory check, the load of the 02 and 01 files and the
\* report and analyses computed from them
RunLoad(p) ==
    /\ pipelines[p].pc = "load"
    /\ LET dir == default_dir(pipelines[p].har_file)
           summary == read_json(har_chunks[dir].files, SummaryFile)
           hdr == read_json(har_chunks[dir].files, HeaderFile)
       IN  IF IsNone(summary) \/ IsNone(hdr) \/ report_raises(Get(hdr))
           THEN pipelines' = [pipelines EXCEPT ![p].pc = "exited",
                                               ![p].exit_code = Some(1)]
           ELSE LET rs == Get(summary).requests
                IN  pipelines' = [pipelines EXCEPT
                       ![p].pc = "reconstruct",
                       ![p].summary = Get(summary),
                       ![p].header = Get(hdr),
                       ![p].analyses =
                          [compression |-> analyze_compression(rs),
                           caching |-> analyze_caching(rs),
                           dns_connection |-> analyze_dns_connection_timing(rs),
                           enhanced_third_party |-> analyze_enhanced_third_party(rs)]]
    /\ UNCHANGED <<har_chunks, concurrentRest>>

\* os.listdir and the load of the chunk files
RunReconstruct(p) ==
    /\ pipelines[p].pc = "reconstruct"
    /\ LET d == har_chunks[default_dir(pipelines[p].har_file)]
           chunk_names == {n \in DOMAIN d.files : n[1] = "03_requests_chunk_"}
       IN  pipelines' = [pipelines EXCEPT
              ![p].pc = "save",
              ![p].entries = chunk_entries(d.files, sorted_names(chunk_names)),
              ![p].shared = @ \/ foreign(d, p, chunk_names)]
    /\ UNCHANGED <<har_chunks, concurrentRest>>

\* analyze_critical_path, generate_agent_summary and the save
RunSaveSummary(p) ==
    /\ pipelines[p].pc = "save"
    /\ LET me == pipelines[p]
           full == [log |-> [pages |-> me.header.log.pages, entries |-> me.entries]]
           critical_path == analyze_critical_path(full, me.summary.requests, has_bs)
           doc == generate_agent_summary(
                     me.summary, me.header,
                     Some([compression |-> me.analyses.compression,
                           caching |-> me.analyses.caching,
                           dns_connection |-> me.analyses.dns_connection,
                           enhanced_third_party |-> me.analyses.enhanced_third_party,
                           critical_path |-> critical_path]))
           dir == default_dir(me.har_file)
           d == har_chunks[dir]
       IN  /\ har_chunks' = [har_chunks EXCEPT
                                ![dir] = stored(d, p, AgentSummaryFile, doc)]
           /\ pipelines' = [pipelines EXCEPT
                 ![p].pc = "exited",
                 ![p].exit_code = Some(0),
                 ![p].shared = @ \/ foreign(d, p, {AgentSummaryFile})]
    /\ UNCHANGED concurrentRest

NextConcurrent ==
    \E p \in Runs :
        \/ RunMakeDirs(p)
        \/ RunWriteHeader(p)
        \/ RunWriteSummary(p)
        \/ RunWriteChunk(p)
        \/ RunWriteGuides(p)
        \/ RunLoad(p)
        \/ RunReconstruct(p)
        \/ RunSaveSummary(p)

SpecConcurrent == InitConcurrent /\ [][NextConcurrent]_vars

\* the summary that run p produced
SavedSummary(p) ==
    read_json(har_chunks[default_dir(pipelines[p].har_file)].files, AgentSummaryFile)

\* C14: for two distinct HAR files processed at the same time, no run reads
\* or overwrites a chunk file or an agent_summary.json that the other run
\* wrote, and when both runs have ended each has exited with status 0 and
\* the summary in its directory is the one its HAR gives when run alone.
C14_IndependentRuns ==
    /\ \A p \in Runs : ~pipelines[p].shared
    /\ (\A p \in Runs : pipelines[p].pc = "exited") =>
          \A p \in Runs :
             /\ pipelines[p].exit_code = Some(0)
             /\ SavedSummary(p) =
                   Some(summary_alone(pipelines[p].har_file.content, has_bs))

---------------------------------------------------------------------------
(* utils/template_helpers.truncate_url.  A string is the sequence of its   *)
(* characters.                                                             *)

\* s[:k], where a negative k counts from the end
slice_to(s, k) ==
    IF k >= 0 THEN Take(s, k) ELSE Take(s, Max(0, Len(s) + k))

\* s[k:] for k >= 0
slice_from(s, k) == SubSeq(s, Min(k, Len(s)) + 1, Len(s))

starts_at(s, i, word) ==
    /\ i + Len(word) - 1 <= Len(s)
    /\ SubSeq(s, i, i + Len(word) - 1) = word

\* the length of the scheme of r"https?://" when it starts at i, else 0
scheme_at(s, i) ==
    IF starts_at(s, i, <<"h", "t", "t", "p", "s", ":", "/", "/">>) THEN 8
    ELSE IF starts_at(s, i, <<"h", "t", "t", "p", ":", "/", "/">>) THEN 7
    ELSE 0

\* the length of the longest run of characters other than '/' from i on
RECURSIVE domain_run(_, _)
domain_run(s, i) ==
    IF i > Len(s) \/ s[i] = "/" THEN 0 ELSE 1 + domain_run(s, i + 1)

\* re.search(r"https?://([^/]+)", url): None, or the match with its groups
search_domain(url) ==
    LET Matches(i) == scheme_at(url, i) > 0
                      /\ domain_run(url, i + scheme_at(url, i)) > 0
        starts == {i \in 1..Len(url) : Matches(i)}
    IN  IF starts = {} THEN None
        ELSE LET i == CHOOSE k \in starts : \A j \in starts : k <= j
                 n == scheme_at(url, i)
                 m == domain_run(url, i + n)
             IN  Some([group0 |-> SubSeq(url, i, i + n + m - 1),
                       group1 |-> SubSeq(url, i + n, i + n + m - 1)])

Ellipsis == <<".", ".", ".">>

truncate_url(url, max_length) ==
    IF url = <<>> THEN <<>>
    ELSE IF Len(url) <= max_length THEN url
    ELSE
    LET match == search_domain(url)
    IN  IF IsNone(match) THEN slice_to(url, max_length - 3) \o Ellipsis
        ELSE
        LET domain == Get(match).group1
            prefix == Get(match).group0
            path_max == max_length - Len(prefix) - 3
            path_part == slice_from(url, Len(prefix))
        IN  IF Len(domain) > max_length - 10
            THEN slice_to(domain, max_length - 3) \o Ellipsis
            ELSE IF Len(path_part) > path_max
            THEN prefix \o slice_to(path_part, path_max) \o Ellipsis
            ELSE prefix \o path_part

---------------------------------------------------------------------------
(* SpecTruncate: truncate_url over URLs made of a scheme, a domain and a   *)
(* path, and over strings that are no URL.                                 *)

MaxLength == 12
MaxDomainLen == 3
MaxPathLen == 5

Repeat(c, n) == [k \in 1..n |-> c]

Schemes ==
    {<<>>, <<"h", "t", "t", "p", ":", "/", "/">>,
     <<"h", "t", "t", "p", "s", ":", "/", "/">>}

TruncateUrls ==
    {scheme \o Repeat("d", n) \o path :
        scheme \in Schemes, n \in 0..MaxDomainLen,
        path \in {<<>>} \cup {<<"/">> \o Repeat("p", k) : k \in 0..MaxPathLen}}

InitTruncate ==
    /\ \E u \in TruncateUrls, m \in 0..MaxLength :
          call = [url |-> u, max_length |-> m, result |-> <<>>]
    /\ done = {}
    /\ reqs = <<>>
    /\ has_bs = FALSE
    /\ pipelines = Unset
    /\ har_chunks = Unset
    /\ output_dir = Unset
    /\ chunker_pc = Unset
    /\ run = 0
    /\ json_data = Unset
    /\ chunk_number = 0
    /\ first_run_files = Unset
    /\ analyzer_pc = Unset
    /\ exit_code = None
    /\ compression_analysis = Unset
    /\ cache_analysis = Unset
    /\ full_har_data = Unset
    /\ critical_path_analysis = Unset
    /\ cp_raised = FALSE
    /\ IdleSummary
    /\ html_content = Unset
    /\ resource_url = Unset
    /\ blocking_resources = Unset
    /\ resource = Unset
    /\ IdleAudit
    /\ IdleBreak

callRest ==
    <<reqs, header, summaryVars, criticalVars, auditVars, breakVars, chunkerVars,
      analyzerVars, pipelines, har_chunks>>

TruncateUrl ==
    /\ "truncate_url" \notin done
    /\ call' = [call EXCEPT !.result = truncate_url(call.url, call.max_length)]
    /\ done' = done \cup {"truncate_url"}
    /\ UNCHANGED callRest

NextTruncate == TruncateUrl

SpecTruncate == InitTruncate /\ [][NextTruncate]_vars

\* C15: for every string u and every max_length, truncate_url(u, max_length)
\* is at most max_length long, is u when u is at most max_length long,
\* contains "..." when it differs from u, and is empty for an empty u.
C15_TruncationBound ==
    "truncate_url" \in done =>
        /\ Len(call.result) <= call.max_length
        /\ Len(call.url) <= call.max_length => call.result = call.url
        /\ call.result # call.url => Contains(call.result, Ellipsis)
        /\ call.url = <<>> => call.result = <<>>

---------------------------------------------------------------------------
(* SpecSelect: analyze_critical_path over captures with several HTML       *)
(* candidates of different position, URL and content length.               *)

MaxSelectEntries == 3

\* a redirect to the page, as captures start with when the site is entered
\* without its scheme
RedirectEntry ==
    Entry("GET", <<"https://", "h">>, 301, HtmlMime, 0, None, None, 20,
          Some("document"), NoTimings)

\* a document longer than ScenarioHead
FrameDocument == <<TextPart("doctype"), TextPart("html")>> \o ScenarioHead

FrameHtmlEntry ==
    Entry("GET", <<"https://", "h", "/", "frame", ".", "html">>, 200, HtmlMime,
          1024, Some(FrameDocument), None, 100, Some("document"), NoTimings)

SelectEntries ==
    {RedirectEntry, HtmlEntry(PageUrl, 100, None), FrameHtmlEntry, EmptyHtmlEntry,
     CssEntry}

SelectEntryLists == UNION {[1..n -> SelectEntries] : n \in 0..MaxSelectEntries}

InitSelect ==
    /\ \E es \in SelectEntryLists : full_har_data = [log |-> [entries |-> es]]
    /\ reqs \in {<<>>, summary_of(<<CssEntry>>)}
    /\ has_bs \in BOOLEAN
    /\ done = {}
    /\ call = Unset
    /\ pipelines = Unset
    /\ har_chunks = Unset
    /\ output_dir = Unset
    /\ chunker_pc = Unset
    /\ run = 0
    /\ json_data = Unset
    /\ chunk_number = 0
    /\ first_run_files = Unset
    /\ analyzer_pc = Unset
    /\ exit_code = None
    /\ compression_analysis = Unset
    /\ cache_analysis = Unset
    /\ critical_path_analysis = Unset
    /\ cp_raised = FALSE
    /\ IdleSummary
    /\ html_content = Unset
    /\ resource_url = Unset
    /\ blocking_resources = Unset
    /\ resource = Unset
    /\ IdleAudit
    /\ IdleBreak

SpecSelect == InitSelect /\ [][NextFailures]_vars

\* a short root-like path such as https://host/
RootLike(url) == Len(url) = 3 /\ url[1] = "https://" /\ url[3] = "/"

\* C16: among the HTML candidates, the document analysed is (a) a candidate
\* that is the first entry or has a short root-like URL and has non-empty
\* content, when there is one; (b) otherwise a candidate with the longest
\* non-empty content; (c) otherwise the result is unavailable and names a
\* candidate's URL in debug_info.selected_url.
C16_SelectionPriority ==
    LET cs == html_candidates(full_har_data.log.entries)
        Cands == Range(cs)
        Main == {c \in Cands : (c.index = 0 \/ RootLike(c.url)) /\ c.has_content}
        Filled == {c \in Cands : c.has_content}
        Longest == {c \in Filled : \A d \in Filled : d.content_length <= c.content_length}
        result == critical_path_analysis
    IN  ("analyze_critical_path" \in done /\ Cands # {}) =>
            IF Main # {}
            THEN /\ result.analysis_available
                 /\ result.source_document.index \in {c.index : c \in Main}
            ELSE IF Filled # {}
            THEN /\ result.analysis_available
                 /\ result.source_document.index \in {c.index : c \in Longest}
            ELSE /\ ~result.analysis_available
                 /\ result.debug_info.selected_url \in {c.url : c \in Cands}

---------------------------------------------------------------------------
(* SpecMetrics: the metrics of analyze_critical_path (lines 613-636) over  *)
(* lists of blocking resources.                                            *)

MaxResources == 5

\* an item as correlate_with_request returns it for a URL with a request
FoundResource(type, size, time) ==
    create_resource_object(
        [url |-> <<"https://", "h", "/", "r">>, size |-> size, time |-> time,
         status |-> 200], type)

\* an item as correlate_with_request returns it for a URL without a request
UnfoundResource(type) ==
    [url |-> <<"r">>, type |-> type, size |-> 0, time |-> 0, found_in_har |-> FALSE]

\* sizes and times on both sides of the rules' thresholds
ResourceItems ==
    {FoundResource("stylesheet", 50000, 1000),
     FoundResource("stylesheet", 50000, 1001),
     FoundResource("script", 50001, 1000),
     FoundResource("script", 50000, 300),
     UnfoundResource("stylesheet")}

ResourceLists == UNION {[1..n -> ResourceItems] : n \in 0..MaxResources}

InitMetrics ==
    /\ blocking_resources \in ResourceLists
    /\ done = {}
    /\ reqs = <<>>
    /\ has_bs = FALSE
    /\ call = Unset
    /\ pipelines = Unset
    /\ har_chunks = Unset
    /\ output_dir = Unset
    /\ chunker_pc = Unset
    /\ run = 0
    /\ json_data = Unset
    /\ chunk_number = 0
    /\ first_run_files = Unset
    /\ analyzer_pc = Unset
    /\ exit_code = None
    /\ compression_analysis = Unset
    /\ cache_analysis = Unset
    /\ full_har_data = Unset
    /\ critical_path_analysis = Unset
    /\ cp_raised = FALSE
    /\ IdleSummary
    /\ html_content = Unset
    /\ resource_url = Unset
    /\ resource = Unset
    /\ IdleAudit
    /\ IdleBreak

CriticalPathResult ==
    /\ "critical_path_result" \notin done
    /\ critical_path_analysis' =
          critical_path_result(blocking_resources,
                               html_candidate(<<HtmlEntry(PageUrl, 100, None)>>, 1))
    /\ done' = done \cup {"critical_path_result"}
    /\ UNCHANGED <<reqs, header, summaryVars, criticalVars, auditVars, breakVars,
                   chunkerVars, analyzer_pc, exit_code, compression_analysis,
                   cache_analysis, full_har_data, cp_raised, sharedVars>>

NextMetrics == CriticalPathResult

SpecMetrics == InitMetrics /\ [][NextMetrics]_vars

FoundItems == {k \in 1..Len(blocking_resources) : blocking_resources[k].found_in_har}

RuleNames ==
    <<"bundle css", "async or defer", "optimize large", "investigate slow",
      "inline critical css">>

\* the conditions of the five rules, 50KB being 50000 bytes
RuleHolds ==
    LET Css == {k \in 1..Len(blocking_resources) :
                   blocking_resources[k].type = "stylesheet"}
        Js == {k \in 1..Len(blocking_resources) :
                   blocking_resources[k].type = "script"}
    IN  <<Cardinality(Css) > 3,
          Cardinality(Js) >= 1,
          \E k \in 1..Len(blocking_resources) : blocking_resources[k].size > 50000,
          \E k \in 1..Len(blocking_resources) : blocking_resources[k].time > 1000,
          Cardinality(Css) >= 1>>

RuleRank(name) == CHOOSE i \in 1..5 : RuleNames[i] = name

\* C19: the recommendations are the rules whose conditions hold, each once,
\* in the order bundling, async/defer, size, slowness, inlining; they are the
\* single entry 'well-optimized' exactly when no condition holds.
C19_RecommendationOrder ==
    "critical_path_result" \in done =>
        LET recs == critical_path_analysis.recommendations
            Holding == {i \in 1..5 : RuleHolds[i]}
        IN  /\ (recs = <<"well-optimized">>) <=> (Holding = {})
            /\ Holding # {} =>
                  /\ Range(recs) = {RuleNames[i] : i \in Holding}
                  /\ \A j, k \in 1..Len(recs) :
                        j < k => RuleRank(recs[j]) < RuleRank(recs[k])

\* C19 witness: a list for which all five rules hold gets the five
\* recommendations in their order.
C19_Witness ==
    /\ "critical_path_result" \in done
    /\ \A i \in 1..5 : RuleHolds[i]
    /\ critical_path_analysis.recommendations = RuleNames

---------------------------------------------------------------------------
(* The two parsers of parse_critical_resources compared.                   *)

\* C18: for every head section and request map, parse_with_beautifulsoup
\* and parse_with_regex return the same list (same URLs, types and order),
\* also for a link tag with href before rel and for a script whose URL
\* contains the word async or defer; so the list parse_critical_resources
\* returned is the list of either parser.
C18_ParserEquivalence ==
    "parse_critical_resources" \in done =>
        /\ blocking_resources
              = parse_with_beautifulsoup(html_content, url_to_request(reqs))
        /\ blocking_resources
              = parse_with_regex(html_content, url_to_request(reqs))

---------------------------------------------------------------------------
(* SpecChunks: the chunker and the analyzer on captures of 0 to 991        *)
(* entries, the last one needing 100 chunk files.                          *)

\* the i-th entry of a capture: a stylesheet named by its position
NumberedEntry(i) ==
    Entry("GET", <<"https://", "h", "/", "r">> \o digits(i) \o <<".", "css">>, 200,
          <<"text", "/", "css">>, 2048, None, None, 300, Some("stylesheet"),
          NoTimings)

Capture(n) == [i \in 1..n |-> NumberedEntry(i)]

EntryCounts == {0, 5, 10, 11, 991}

InitChunks ==
    /\ \E n \in EntryCounts : har = Har(<<ScenarioPage>>, Capture(n))
    /\ has_bs = FALSE
    /\ output_dir = [exists |-> FALSE, files |-> <<>>]
    /\ chunker_pc = "start"
    /\ run = 1
    /\ json_data = Unset
    /\ chunk_number = 0
    /\ first_run_files = Unset
    /\ analyzer_pc = "start"
    /\ exit_code = None
    /\ compression_analysis = Unset
    /\ cache_analysis = Unset
    /\ full_har_data = Unset
    /\ critical_path_analysis = Unset
    /\ cp_raised = FALSE
    /\ call = Unset
    /\ pipelines = Unset
    /\ har_chunks = Unset
    /\ reqs = <<>>
    /\ done = {}
    /\ IdleSummary
    /\ html_content = Unset
    /\ resource_url = Unset
    /\ blocking_resources = Unset
    /\ resource = Unset
    /\ IdleAudit
    /\ structured_data = Unset
    /\ classified = Unset

\* the analyzer from its start to the rebuilt HAR: the load of the 01 and 02
\* files (lines 94-110) and the reconstruction (lines 363-391); the report
\* and the analyses between them assign nothing that the reconstruction
\* reads, and are left to SpecPipeline
AnalyzerRebuild ==
    /\ chunker_pc = "done"
    /\ analyzer_pc = "start"
    /\ LET summary == read_json(output_dir.files, SummaryFile)
           hdr == read_json(output_dir.files, HeaderFile)
       IN  IF output_dir.exists /\ ~IsNone(summary) /\ ~IsNone(hdr)
           THEN /\ reqs' = Get(summary).requests
                /\ header' = reconstructed(output_dir.files, Get(hdr))
                /\ full_har_data' = reconstructed(output_dir.files, Get(hdr))
                /\ analyzer_pc' = "critical_path"
                /\ exit_code' = None
           ELSE /\ analyzer_pc' = "exited"
                /\ exit_code' = Some(1)
                /\ UNCHANGED <<reqs, header, full_har_data>>
    /\ UNCHANGED <<done, summaryVars, criticalVars, auditVars, breakVars, chunkerVars,
                   compression_analysis, cache_analysis, critical_path_analysis,
                   cp_raised, sharedVars>>

NextChunks ==
    \/ ChunkerMakeDirs
    \/ ChunkerRead
    \/ ChunkerWriteHeader
    \/ ChunkerWriteSummary
    \/ ChunkerWriteChunk
    \/ ChunkerWriteResourceTypes
    \/ ChunkerWriteIndex
    \/ AnalyzerRebuild

SpecChunks == InitChunks /\ [][NextChunks]_vars

\* ceil(n / 10)
chunks_needed(n) == (n + chunk_size - 1) \div chunk_size

\* the entries of the chunk files 1..k, in the order of their numbers
RECURSIVE entries_by_number(_, _)
entries_by_number(files, k) ==
    IF k = 0 THEN <<>>
    ELSE entries_by_number(files, k - 1)
         \o Get(read_json(files, chunk_file_name(k))).entries

\* C20: when the chunker is done the directory holds ceil(n/10) chunk files,
\* numbered from 1, of 10 entries each but for a shorter last one, which
\* together hold the entries of the HAR once each and in order; and the
\* entries the analyzer rebuilds from them are log.entries in capture order.
C20_CaptureOrderPreserved ==
    LET n == Len(har.log.entries)
        k == chunks_needed(n)
        files == output_dir.files
    IN  /\ chunker_pc = "done" =>
              /\ {m \in DOMAIN files : m[1] = "03_requests_chunk_"}
                    = {chunk_file_name(c) : c \in 1..k}
              /\ \A c \in 1..k :
                    Len(Get(read_json(files, chunk_file_name(c))).entries)
                       = IF c < k THEN chunk_size ELSE n - (k - 1) * chunk_size
              /\ entries_by_number(files, k) = har.log.entries
        /\ analyzer_pc \in {"critical_path", "summary"} =>
              full_har_data.log.entries = har.log.entries

---------------------------------------------------------------------------
(* Per-domain averages of analyze_dns_connection_timing (lines 1146-1174), *)
(* checked in SpecDns.                                                     *)

\* the measured samples of one phase among the requests of domain d
DomainSamples(d, key) == {i \in Samples(key) : netloc(reqs[i].url) = d}

\* the value a domain entry carries for a measured average of 0 ms
MeasuredZero == average_1dp(<<0>>)

\* C21: in domain_performance, a domain none of whose requests has a valid
\* (>= 0) dns, ssl or connect timing carries an average for that phase that
\* differs from the value of a measured average of 0.
C21_DomainSentinel ==
    "analyze_dns_connection_timing" \in done =>
        \A k \in 1..Len(dns_analysis.domain_performance) :
            LET st == dns_analysis.domain_performance[k]
            IN  /\ DomainSamples(st.domain, "dns") = {}
                      => st.avg_dns_ms # MeasuredZero
                /\ DomainSamples(st.domain, "ssl") = {}
                      => st.avg_ssl_ms # MeasuredZero
                /\ DomainSamples(st.domain, "connect") = {}
                      => st.avg_connect_ms # MeasuredZero

---------------------------------------------------------------------------
(* SpecCompression: the chunker and then the analyzer on captures whose    *)
(* responses carry headers (entry["response"]["headers"]).                 *)

\* an entry with the header list of its response
WithHeaders(entry, headers) ==
    [entry EXCEPT !.response =
        [k \in DOMAIN entry.response \cup {"headers"} |->
            IF k = "headers" THEN headers ELSE entry.response[k]]]

ContentType(mime) == [name |-> "content-type", value |-> mime]
GzipEncoding == [name |-> "content-encoding", value |-> <<"gzip">>]

\* a response of the given MIME type and size at https://h/<name>
SizedEntry(name, mime, size, headers) ==
    WithHeaders(Entry("GET", <<"https://", "h", "/", name>>, 200, mime, size,
                      None, None, 100, None, NoTimings),
                <<ContentType(mime)>> \o headers)

\* text sent plain, text sent compressed, text of exactly 1024 bytes, and an
\* image
CompressionEntries ==
    {SizedEntry("plain", <<"text", "/", "css">>, 2048, <<>>),
     SizedEntry("odd", <<"application", "/", "json">>, 1025, <<>>),
     SizedEntry("gzip", <<"text", "/", "css">>, 2048, <<GzipEncoding>>),
     SizedEntry("small", <<"text", "/", "css">>, 1024, <<>>),
     SizedEntry("image", <<"image", "/", "png">>, 2048, <<>>)}

CompressionEntryLists ==
    UNION {[1..n -> CompressionEntries] : n \in 0..MaxReqs}

InitCompression ==
    /\ \E es \in CompressionEntryLists : har = Har(<<ScenarioPage>>, es)
    /\ has_bs \in BOOLEAN
    /\ output_dir = [exists |-> FALSE, files |-> <<>>]
    /\ chunker_pc = "start"
    /\ run = 1
    /\ json_data = Unset
    /\ chunk_number = 0
    /\ first_run_files = Unset
    /\ analyzer_pc = "start"
    /\ exit_code = None
    /\ compression_analysis = Unset
    /\ cache_analysis = Unset
    /\ full_har_data = Unset
    /\ critical_path_analysis = Unset
    /\ cp_raised = FALSE
    /\ call = Unset
    /\ pipelines = Unset
    /\ har_chunks = Unset
    /\ reqs = <<>>
    /\ done = {}
    /\ IdleSummary
    /\ html_content = Unset
    /\ resource_url = Unset
    /\ blocking_resources = Unset
    /\ resource = Unset
    /\ IdleAudit
    /\ structured_data = Unset
    /\ classified = Unset

SpecCompression == InitCompression /\ [][NextPipeline]_vars

\* the entries of the capture that the audit is to report: text-like MIME
\* type, more than 1024 bytes, no content-encoding header
Reportable(e) ==
    /\ \E t \in compressible_types : Contains(e.response.content.mimeType, t)
    /\ e.response.content.size > 1024
    /\ IsNone(get_header_value(e.response.headers, "content-encoding"))

\* C22: after the chunker and the analyzer have run on a capture, every entry
\* with a text-like MIME type, a size above 1024 and no content-encoding
\* header is in compression_analysis.uncompressed_resources with
\* potential_savings = 70% of its size rounded down, no other entry is
\* there, and compression_opportunity_count is the number of such entries.
C22_CompressionAudit ==
    (analyzer_pc = "exited" /\ exit_code = Some(0)) =>
        LET es == har.log.entries
            found == compression_analysis.uncompressed_resources
        IN  /\ \A i \in 1..Len(es) :
                  Reportable(es[i]) =>
                     \E k \in 1..Len(found) :
                        /\ found[k].url = es[i].request.url
                        /\ found[k].size = es[i].response.content.size
                        /\ found[k].potential_savings
                              = (7 * es[i].response.content.size) \div 10
            /\ \A k \in 1..Len(found) :
                  \E i \in 1..Len(es) :
                     Reportable(es[i]) /\ found[k].url = es[i].request.url
            /\ compression_analysis.compression_opportunity_count
                  = Cardinality({i \in 1..Len(es) : Reportable(es[i])})

---------------------------------------------------------------------------
(* SpecCaching: analyze_caching over bounded lists of requests that carry  *)
(* response headers.                                                       *)

CacheControl(value) == [name |-> "cache-control", value |-> value]
ExpiresHeader == [name |-> "expires", value |-> <<"Thu, 01 Jan 2026 00:00:00 GMT">>]
EtagHeader == [name |-> "etag", value |-> <<"abc">>]

MaxAge(n) == <<"max-age", "=", n>>

\* the response header lists of a request: no caching header; expires
\* alone; max-age below, at and above one hour; max-age beside no-cache or
\* no-store; directives without max-age
CacheHeaderLists ==
    {<<>>, <<EtagHeader>>, <<ExpiresHeader>>,
     <<CacheControl(MaxAge("60"))>>,
     <<CacheControl(MaxAge("3599")), ExpiresHeader>>,
     <<CacheControl(MaxAge("3600"))>>,
     <<CacheControl(<<"public", ",", " ">> \o MaxAge("0"))>>,
     <<CacheControl(<<"no-cache", ",", " ">> \o MaxAge("60"))>>,
     <<CacheControl(MaxAge("60") \o <<",", " ", "no-store">>)>>,
     <<CacheControl(<<"no-store">>)>>,
     <<CacheControl(<<"public">>)>>}

\* a request record with the key responseHeaders
WithResponseHeaders(req, headers) ==
    [k \in DOMAIN req \cup {"responseHeaders"} |->
        IF k = "responseHeaders" THEN headers ELSE req[k]]

CacheRequestLists == UNION {[1..n -> CacheHeaderLists] : n \in 0..MaxReqs}

InitCaching ==
    /\ IdlePipe
    /\ \E hs \in CacheRequestLists :
          reqs = [i \in 1..Len(hs) |->
                    WithResponseHeaders(
                        Request(i, "GET", <<"https://", "h", "/", DigitTok[i + 1]>>, 200,
                                <<"text", "/", "css">>, 2048, 100, "stylesheet",
                                NoTimings),
                        hs[i])]
    /\ done = {}
    /\ IdleAudit
    /\ IdleSummary
    /\ IdleCritical
    /\ IdleBreak

AnalyzeCaching ==
    /\ "analyze_caching" \notin done
    /\ cache_analysis' = analyze_caching(reqs)
    /\ done' = done \cup {"analyze_caching"}
    /\ UNCHANGED <<reqs, header, summaryVars, criticalVars, auditVars, breakVars,
                   chunkerVars, analyzer_pc, exit_code, compression_analysis,
                   full_har_data, critical_path_analysis, cp_raised, sharedVars>>

NextCaching == AnalyzeCaching

SpecCaching == InitCaching /\ [][NextCaching]_vars

HasHeader(r, name) == \E i \in 1..Len(r.responseHeaders) : r.responseHeaders[i].name = name

HeaderValue(r, name) ==
    r.responseHeaders[CHOOSE i \in 1..Len(r.responseHeaders) :
                          r.responseHeaders[i].name = name].value

\* the cache-control value holds max-age=n with n below one hour
ShortMaxAge(r) ==
    /\ HasHeader(r, "cache-control")
    /\ LET v == HeaderValue(r, "cache-control")
       IN  \E i \in 1..(Len(v) - 2) :
              /\ v[i] = "max-age"
              /\ v[i + 1] = "="
              /\ v[i + 2] \in {"0", "60", "3599"}

FlaggedNoCache(r) ==
    \E k \in 1..Len(cache_analysis.no_cache_resources) :
        cache_analysis.no_cache_resources[k].url = r.url

FlaggedShortCache(r) ==
    \E k \in 1..Len(cache_analysis.short_cache_resources) :
        cache_analysis.short_cache_resources[k].url = r.url

\* C23: analyze_caching flags a request no-cache exactly when its response
\* has neither a cache-control nor an expires header, and short-cache
\* exactly when its cache-control value contains max-age=n with n < 3600,
\* whatever else the value contains; no request is flagged both, and
\* cache_optimization_count is the number of flagged requests.
C23_CachePolicy ==
    "analyze_caching" \in done =>
        /\ \A i \in 1..Len(reqs) :
              /\ FlaggedNoCache(reqs[i])
                    <=> (~HasHeader(reqs[i], "cache-control")
                         /\ ~HasHeader(reqs[i], "expires"))
              /\ FlaggedShortCache(reqs[i]) <=> ShortMaxAge(reqs[i])
              /\ ~(FlaggedNoCache(reqs[i]) /\ FlaggedShortCache(reqs[i]))
        /\ cache_analysis.cache_optimization_count
              = Cardinality({i \in 1..Len(reqs) :
                     FlaggedNoCache(reqs[i]) \/ FlaggedShortCache(reqs[i])})

---------------------------------------------------------------------------
(* The analyzer's inputs after its run, checked in SpecPipeline.           *)

\* C24: once the analyzer has loaded its inputs, and to the end of its run,
\* the request records equal the requests of 02_requests_summary.json and
\* the header object equals the document of 01_header_and_metadata.json.
C24_InputsReadOnly ==
    (\/ analyzer_pc \in {"report", "enhancements", "reconstruct",
                         "critical_path", "summary"}
     \/ (analyzer_pc = "exited" /\ exit_code = Some(0)))
    => /\ reqs = Get(read_json(output_dir.files, SummaryFile)).requests
       /\ header = Get(read_json(output_dir.files, HeaderFile))

---------------------------------------------------------------------------
(* The scope of analyze_enhanced_third_party, checked in SpecSizes: the    *)
(* page's own domain is that of the first request, the page document.      *)

first_party_domain == netloc(reqs[1].url)

ThirdPartyRequests == {i \in 1..Len(reqs) : netloc(reqs[i].url) # first_party_domain}

\* C25: in enhanced_third_party_analysis the first-party domain is no key of
\* domain_impact, is not in high_impact_domains or blocking_third_parties,
\* adds to no category of category_breakdown, and is not counted in
\* total_third_party_domains.
C25_ThirdPartyScope ==
    ("analyze_enhanced_third_party" \in done /\ reqs # <<>>) =>
        LET tp == enhanced_tp_analysis
        IN  /\ first_party_domain \notin DOMAIN tp.domain_impact
            /\ first_party_domain \notin Range(tp.high_impact_domains)
            /\ first_party_domain \notin Range(tp.blocking_third_parties)
            /\ \A c \in DOMAIN tp.category_breakdown :
                  tp.category_breakdown[c].requests
                     = Cardinality({i \in ThirdPartyRequests :
                          categorize_domain(netloc(reqs[i].url)) = c})
            /\ tp.total_third_party_domains
                  = Cardinality({netloc(reqs[i].url) : i \in ThirdPartyRequests})

---------------------------------------------------------------------------
(* The priority order of _determine_resource_type, checked in SpecClassify. *)

\* the index of the first token equal to tok from position from on, 0 if none
RECURSIVE index_of(_, _, _)
index_of(url, tok, from) ==
    IF from > Len(url) THEN 0
    ELSE IF url[from] = tok THEN from
    ELSE index_of(url, tok, from + 1)

\* the path of a URL: from the first "/" after the scheme up to the query
url_path(url) ==
    LET start == index_of(url, "/", 2)
        query == index_of(url, "?", 2)
        stop == IF query = 0 THEN Len(url) ELSE query - 1
    IN  IF start = 0 THEN <<>> ELSE SubSeq(url, start, stop)

\* the file extension of a URL: what follows the last "." of the last
\* segment of its path, None when that segment has no "."
file_extension(url) ==
    LET path == url_path(url)
        dots == {i \in 1..(Len(path) - 1) :
                    /\ path[i] = "."
                    /\ \A j \in (i + 1)..Len(path) : path[j] # "/"}
    IN  IF dots = {} THEN None
        ELSE Some(path[(CHOOSE i \in dots : \A j \in dots : j <= i) + 1])

\* the category of a file extension (lines 182-193), None for any other
extension_category(ext) ==
    IF ext \in {"js", "jsx", "ts", "tsx"} THEN Some("script")
    ELSE IF ext \in {"css", "scss", "sass"} THEN Some("stylesheet")
    ELSE IF ext \in {"jpg", "jpeg", "png", "gif", "svg", "webp", "ico"}
    THEN Some("image")
    ELSE IF ext \in {"woff", "woff2", "ttf", "eot", "otf"} THEN Some("font")
    ELSE IF ext \in {"html", "htm"} THEN Some("document")
    ELSE IF ext \in {"mp4", "avi", "mov", "wmv", "mp3", "wav"} THEN Some("media")
    ELSE None

\* the category of a MIME type (lines 166-179), None for any other
mime_category(m) ==
    IF Contains(m, <<"javascript">>) \/ Contains(m, <<"application", "/", "json">>)
    THEN Some("script")
    ELSE IF Contains(m, <<"text", "/", "css">>) THEN Some("stylesheet")
    ELSE IF Contains(m, <<"image", "/">>) THEN Some("image")
    ELSE IF Contains(m, <<"font", "/">>) \/ Contains(m, <<"application", "/", "font">>)
    THEN Some("font")
    ELSE IF Contains(m, <<"text", "/", "html">>) THEN Some("document")
    ELSE IF Contains(m, <<"video", "/">>) \/ Contains(m, <<"audio", "/">>)
    THEN Some("media")
    ELSE None

\* the first applicable rule of: the HAR-provided type, the MIME category,
\* the category of the file extension, 'other'
first_applicable_rule(url, mime_type, har_resource_type) ==
    LET m == IF IsNone(mime_type) THEN <<>> ELSE Get(mime_type)
        ext == file_extension(url)
    IN  IF ~IsNone(har_resource_type)
           /\ Get(har_resource_type) \notin {"", "other"}
        THEN Get(har_resource_type)
        ELSE IF ~IsNone(mime_category(m)) THEN Get(mime_category(m))
        ELSE IF ~IsNone(ext) /\ ~IsNone(extension_category(Get(ext)))
        THEN Get(extension_category(Get(ext)))
        ELSE "other"

\* C26: the result of _determine_resource_type is that of the first
\* applicable rule among (1) the HAR-provided type when present and not
\* 'other', (2) the category of the MIME type, (3) the category of the URL's
\* file extension, (4) 'other'; so without a type and a MIME category a URL
\* with the file extension css is a stylesheet whatever else it contains.
C26_ClassifierPriority ==
    "_determine_resource_type" \in done =>
        Get(classified.result)
           = first_applicable_rule(classified.url, classified.mime_type,
                                   classified.har_resource_type)

---------------------------------------------------------------------------
(* SpecReruns: chunker runs one after the other into the same output       *)
(* directory, each on a capture of its own, and then the analyzer.         *)

MaxRuns == 2

\* captures of no, some and more than ten stylesheet entries, and captures
\* of entries of another resource type
RerunCaptures == {Capture(0), Capture(5), Capture(11), <<ScriptEntry>>, LongEntries}

InitReruns ==
    /\ \E es \in RerunCaptures : har = Har(<<ScenarioPage>>, es)
    /\ has_bs = FALSE
    /\ output_dir = [exists |-> FALSE, files |-> <<>>]
    /\ chunker_pc = "start"
    /\ run = 1
    /\ json_data = Unset
    /\ chunk_number = 0
    /\ first_run_files = Unset
    /\ analyzer_pc = "start"
    /\ exit_code = None
    /\ compression_analysis = Unset
    /\ cache_analysis = Unset
    /\ full_har_data = Unset
    /\ critical_path_analysis = Unset
    /\ cp_raised = FALSE
    /\ call = Unset
    /\ pipelines = Unset
    /\ har_chunks = Unset
    /\ reqs = <<>>
    /\ done = {}
    /\ IdleSummary
    /\ html_content = Unset
    /\ resource_url = Unset
    /\ blocking_resources = Unset
    /\ resource = Unset
    /\ IdleAudit
    /\ structured_data = Unset
    /\ classified = Unset

\* the chunker started again with the same --output, on a capture file that
\* may have been replaced
ChunkerRunAgain ==
    /\ chunker_pc = "done"
    /\ run < MaxRuns
    /\ analyzer_pc = "start"
    /\ \E es \in RerunCaptures : har' = Har(<<ScenarioPage>>, es)
    /\ run' = run + 1
    /\ chunker_pc' = "start"
    /\ json_data' = Unset
    /\ chunk_number' = 0
    /\ UNCHANGED <<analyzerState, structured_data, classified, output_dir,
                   first_run_files>>

NextReruns ==
    \/ ChunkerMakeDirs
    \/ ChunkerRead
    \/ ChunkerWriteHeader
    \/ ChunkerWriteSummary
    \/ ChunkerWriteChunk
    \/ ChunkerWriteResourceTypes
    \/ ChunkerWriteIndex
    \/ ChunkerRunAgain
    \/ AnalyzerRebuild

SpecReruns == InitReruns /\ [][NextReruns]_vars

\* the entries held by the 03_requests_chunk_ files of a directory, file by
\* file in the order of the sorted names
chunked_entries(files) ==
    chunk_entries(files, sorted_names({n \in DOMAIN files : n[1] = "03_requests_chunk_"}))

\* the resource types that have a 04_resource_type_ file in a directory
typed_files(files) == {n \in DOMAIN files : n[1] = "04_resource_type_"}

\* C27: whatever chunker runs went into the directory before, when the last
\* run, on capture H, is done, the 03_requests_chunk_ files hold exactly the
\* entries of H, the 04_resource_type_ files are those of H's resource types
\* with H's requests, and the analyzer rebuilds exactly H's entries.
C27_NoStaleChunks ==
    /\ chunker_pc = "done" =>
          /\ chunked_entries(output_dir.files) = har.log.entries
          /\ typed_files(output_dir.files)
                = {resource_type_file_name(t) :
                      t \in Range(resource_types(har.log.entries))}
          /\ \A t \in Range(resource_types(har.log.entries)) :
                read_json(output_dir.files, resource_type_file_name(t))
                   = Some(resource_data(har.log.entries, t))
    /\ analyzer_pc = "critical_path" =>
          full_har_data.log.entries = har.log.entries

---------------------------------------------------------------------------
(* The output directory after a failed chunker run, checked in             *)
(* SpecPipeline, where the directory does not exist before the run.        *)

\* C28: when the chunker has failed on its input (path missing, not JSON, or
\* JSON without log or log.entries) the output directory is as it was before
\* the run: it was not created and holds no file.
C28_NoOutputOnFailure ==
    (defect_of(har) \in HarDefects /\ chunker_pc = "failed") =>
        /\ ~output_dir.exists
        /\ DOMAIN output_dir.files = {}

---------------------------------------------------------------------------
(* SpecWorkflow: app.analyze_single_har_workflow.  It copies the uploaded  *)
(* HAR, runs the chunker on the copy, runs the analyzer with --input       *)
(* har_chunks/<stem> alone, and runs the report generator, each as a       *)
(* process whose working directory is the directory of app.py.  The        *)
(* variable call holds the workflow's position, the working directory, the *)
(* steps it has started, what each returned, and its result.               *)

\* the working directory: the .har files in it, and those of its HAR-Files
\* subdirectory (None when there is no such subdirectory)
WorkingDirs ==
    {[hars |-> {}, har_files |-> None],
     [hars |-> {}, har_files |-> Some({})],
     [hars |-> {<<"x", ".har">>}, har_files |-> None],
     [hars |-> {}, har_files |-> Some({<<"y", ".har">>})]}

\* the path auto_detect_har_file returns, None when it ends the process with
\* sys.exit(1)
auto_detect_har_file(root_dir) ==
    LET har_files ==
            IF root_dir.hars # {} THEN root_dir.hars
            ELSE IF ~IsNone(root_dir.har_files) THEN Get(root_dir.har_files)
            ELSE {}
    IN  IF har_files = {} THEN None ELSE Some(CHOOSE f \in har_files : TRUE)

\* a workflow that goes on whatever a step returned
step_never_failed(returncode) == FALSE

\* if result.returncode != 0: raise Exception(...)
step_failed(returncode) == returncode # 0

Steps == {"chunker", "analyzer", "report"}

\* the dictionaries the workflow returns
Failure(error) == Some([success |-> FALSE, error |-> error])
Success == Some([success |-> TRUE, message |-> <<"Analysis completed successfully">>])

WorkflowHars ==
    {Har(<<ScenarioPage>>, es) :
        es \in {<<>>, <<HtmlEntry(PageUrl, 100, None), CssEntry>>, <<ScriptEntry>>}}
    \cup {Har(<<>>, <<CssEntry>>)}
    \cup DefectiveHars

InitWorkflow ==
    /\ har \in WorkflowHars
    /\ \E d \in WorkingDirs :
          call = [pc |-> "start",
                  root_dir |-> d,
                  started |-> <<>>,
                  returncode |-> [s \in Steps |-> None],
                  report_exists |-> FALSE,
                  result |-> None]
    /\ has_bs \in BOOLEAN
    /\ output_dir = [exists |-> FALSE, files |-> <<>>]
    /\ chunker_pc = "idle"
    /\ run = 1
    /\ json_data = Unset
    /\ chunk_number = 0
    /\ first_run_files = Unset
    /\ analyzer_pc = "idle"
    /\ exit_code = None
    /\ compression_analysis = Unset
    /\ cache_analysis = Unset
    /\ full_har_data = Unset
    /\ critical_path_analysis = Unset
    /\ cp_raised = FALSE
    /\ pipelines = Unset
    /\ har_chunks = Unset
    /\ reqs = <<>>
    /\ done = {}
    /\ IdleSummary
    /\ html_content = Unset
    /\ resource_url = Unset
    /\ blocking_resources = Unset
    /\ resource = Unset
    /\ IdleAudit
    /\ structured_data = Unset
    /\ classified = Unset

workflowRest ==
    <<reqs, header, done, summaryVars, criticalVars, auditVars, breakVars,
      output_dir, run, json_data, chunk_number, first_run_files, exit_code,
      compression_analysis, cache_analysis, full_har_data,
      critical_path_analysis, cp_raised, pipelines, har_chunks>>

\* lines 57-80: the temporary copy of the uploaded file (shutil.copy2 raises
\* when the file is gone) and the start of the chunker
WorkflowStart ==
    /\ call.pc = "start"
    /\ IF defect_of(har) = "file missing"
       THEN /\ call' = [call EXCEPT !.pc = "returned",
                                    !.result = Failure(<<"No such file">>)]
            /\ UNCHANGED chunker_pc
       ELSE /\ call' = [call EXCEPT !.pc = "step 1", !.started = <<"chunker">>]
            /\ chunker_pc' = "start"
    /\ UNCHANGED <<workflowRest, analyzer_pc>>

\* lines 80-96: the chunker has ended; its status decides whether the
\* analyzer is started
WorkflowAfterChunker ==
    /\ call.pc = "step 1"
    /\ chunker_pc \in {"done", "failed"}
    /\ LET returncode == IF chunker_pc = "done" THEN 0 ELSE 1
       IN  IF step_failed(returncode)
           THEN /\ call' = [call EXCEPT
                               !.pc = "returned",
                               !.returncode["chunker"] = Some(returncode),
                               !.result = Failure(<<"HAR breaking failed">>)]
                /\ UNCHANGED analyzer_pc
           ELSE /\ call' = [call EXCEPT
                               !.pc = "step 2",
                               !.returncode["chunker"] = Some(returncode),
                               !.started = @ \o <<"analyzer">>]
                /\ analyzer_pc' = "detect"
    /\ UNCHANGED <<workflowRest, chunker_pc>>

\* analyze_single_har_performance.main called with input_dir and no
\* har_file (lines 87-90): the HAR file is looked up in the working directory
AnalyzerAutoDetect ==
    /\ analyzer_pc = "detect"
    /\ IF IsNone(auto_detect_har_file(call.root_dir))
       THEN /\ analyzer_pc' = "exited"
            /\ exit_code' = Some(1)
       ELSE /\ analyzer_pc' = "start"
            /\ exit_code' = None
    /\ UNCHANGED <<reqs, header, done, summaryVars, criticalVars, auditVars,
                   breakVars, chunkerVars, compression_analysis, cache_analysis,
                   full_har_data, critical_path_analysis, cp_raised, sharedVars>>

\* lines 96-117: the analyzer has ended; its status decides whether the
\* report generator is started
WorkflowAfterAnalyzer ==
    /\ call.pc = "step 2"
    /\ analyzer_pc = "exited"
    /\ IF step_failed(Get(exit_code))
       THEN call' = [call EXCEPT
                        !.pc = "returned",
                        !.returncode["analyzer"] = exit_code,
                        !.result = Failure(<<"Performance analysis failed">>)]
       ELSE call' = [call EXCEPT
                        !.pc = "step 3",
                        !.returncode["analyzer"] = exit_code,
                        !.started = @ \o <<"report">>]
    /\ UNCHANGED <<workflowRest, chunker_pc, analyzer_pc>>

\* lines 117-135: the report generator has ended, with some status and with
\* or without the report file
WorkflowAfterReport ==
    /\ call.pc = "step 3"
    /\ \E returncode \in {0, 1}, exists \in BOOLEAN :
          call' = [call EXCEPT
                      !.pc = "returned",
                      !.returncode["report"] = Some(returncode),
                      !.report_exists = exists,
                      !.result =
                         IF step_failed(returncode)
                         THEN Failure(<<"Report generation failed">>)
                         ELSE IF ~exists
                         THEN Failure(<<"Report file was not created">>)
                         ELSE Success]
    /\ UNCHANGED <<workflowRest, chunker_pc, analyzer_pc>>

NextWorkflow ==
    \/ WorkflowStart
    \/ ChunkerMakeDirs
    \/ ChunkerRead
    \/ ChunkerWriteHeader
    \/ ChunkerWriteSummary
    \/ ChunkerWriteChunk
    \/ ChunkerWriteResourceTypes
    \/ ChunkerWriteIndex
    \/ WorkflowAfterChunker
    \/ AnalyzerAutoDetect
    \/ AnalyzerLoad
    \/ AnalyzerReport
    \/ AnalyzerEnhancements
    \/ AnalyzerReconstruct
    \/ AnalyzerCriticalPath
    \/ AnalyzerSummary
    \/ WorkflowAfterAnalyzer
    \/ WorkflowAfterReport

SpecWorkflow == InitWorkflow /\ [][NextWorkflow]_vars

WorkflowStarted(step) == \E i \in 1..Len(call.started) : call.started[i] = step

WorkflowReturned == call.pc = "returned"

\* C29: the analyzer is started and runs only once the chunker has exited
\* with status 0, the report step is started only once the analyzer has
\* exited with status 0; after a step has exited non-zero no later step is
\* started and the result has success = False with the error; the result
\* has success = True only when all three steps exited 0 and the report file
\* exists.
C29_WorkflowOrder ==
    /\ call.started \in {<<>>, <<"chunker">>, <<"chunker", "analyzer">>,
                         <<"chunker", "analyzer", "report">>}
    /\ (WorkflowStarted("analyzer") \/ analyzer_pc # "idle") =>
          /\ chunker_pc = "done"
          /\ call.returncode["chunker"] = Some(0)
    /\ WorkflowStarted("report") =>
          /\ analyzer_pc = "exited"
          /\ exit_code = Some(0)
          /\ call.returncode["analyzer"] = Some(0)
    /\ (chunker_pc = "failed" /\ call.pc # "step 1") =>
          /\ call.started = <<"chunker">>
          /\ WorkflowReturned
    /\ (analyzer_pc = "exited" /\ exit_code # Some(0) /\ call.pc # "step 2") =>
          /\ call.started = <<"chunker", "analyzer">>
          /\ WorkflowReturned
    /\ (WorkflowReturned
        /\ \E s \in Steps : call.returncode[s] \notin {None, Some(0)}) =>
          /\ ~Get(call.result).success
          /\ Get(call.result).error # <<>>
    /\ (WorkflowReturned /\ Get(call.result).success) =>
          /\ \A s \in Steps : call.returncode[s] = Some(0)
          /\ call.report_exists

\* C29 witness: the chunker exited 0, the analyzer was started and exited
\* non-zero, and the workflow returned its failure without a report step.
C29_Witness ==
    /\ WorkflowReturned
    /\ call.returncode["chunker"] = Some(0)
    /\ call.returncode["analyzer"] = Some(1)
    /\ call.started = <<"chunker", "analyzer">>
    /\ ~Get(call.result).success

\* C30: the analyzer called with the input directory alone, on a directory
\* that the chunker has filled for a capture with a page record, completes
\* with status 0 and leaves agent_summary.json in the directory, whatever
\* .har files the working directory and its HAR-Files subdirectory hold.
C30_ExplicitInputDir ==
    (/\ analyzer_pc = "exited"
     /\ chunker_pc = "done"
     /\ har.log.pages # <<>>) =>
        /\ exit_code = Some(0)
        /\ SummaryFileExists

=============================================================================
